---- MODULE Spec2Model ----
(***************************************************************************)
(* Model of the Open Golf Coach bridge pipeline: the ingest listeners and  *)
(* their frame decoders (ogc_bridge.py, ogc_obs_service.py,                *)
(* obs_open_golf_coach.py, ogc_openapi_service.py), the shot processing    *)
(* steps, the queue between the connection handlers and the dispatch loop, *)
(* and the sink side.                                                      *)
(*                                                                         *)
(* The module holds several specifications over one set of variables; each *)
(* specification leaves the variables of the other parts unchanged.        *)
(*   SpecFraming : one connection's byte stream cut into arbitrary chunks  *)
(*                 and fed to one of the three frame decoders.             *)
(*   SpecBridge  : the process of ogc_bridge.py (OGCBridge) or of          *)
(*                 ogc_obs_service.py (OGCService): sink connect at        *)
(*                 startup, accept loop, one handler thread per            *)
(*                 connection, the queue and the dispatch loop.            *)
(*   SpecBridgeFair : SpecBridge with the main thread scheduled fairly.    *)
(***************************************************************************)
EXTENDS Integers, Sequences, FiniteSets, TLC

VARIABLES
    \* ---- framing: one connection of one ingest decoder -------------------
    fr_dec,       \* which handler's decoder runs: "nl" | "plugin" | "openapi"
    fr_stream,    \* the bytes the peer sends on this connection
    fr_pos,       \* number of bytes of fr_stream already received
    fr_chunks,    \* number of recv() calls that returned data
    fr_buffer,    \* the handler's local `buffer`
    fr_out,       \* decoded messages, in the order the handler decoded them
    fr_open,      \* FALSE once recv() returned b"" and the handler closed
    \* ---- the bridge (OGCBridge) / the standalone service (OGCService) -----
    variant,      \* "bridge" (ogc_bridge.py) | "service" (ogc_obs_service.py)
    running,      \* OGCBridge.running / OGCService.running
    main_pc,      \* where the main thread is in start()
    retry_count,  \* the local retry_count of OGCBridge.start
    listener,     \* DataListener / DataServer: running flag, accept thread
    conn,         \* per connection: handler state and client socket
    wire,         \* per connection: bytes sent by the device, not yet received
    buffers,      \* per connection: the handler's local `buffer`
    sent,         \* per connection: number of messages the device has sent
    data_queue,   \* DataListener.data_queue
    ticket,       \* number of data_queue.put calls so far
    dispatched,   \* what the main loop did with each item it dequeued
    sink_up,      \* whether OBS accepts websocket connections and requests
    obs,          \* OBSManager: connected flag and client handle
    accepted_late, \* a connection was accepted after another one had ended
    to_device,    \* per connection: what the handler has sent to the device
    has_read,     \* per connection: a recv() call has returned data
    hs_failed,    \* per connection: the handshake's sendall raised
    processed,    \* what the handshake handlers did with each decoded message
    \* ---- OBSManager and the inputs of OBS ---------------------------------
    created_sources, \* OBSManager.created_sources
    sink_inputs,  \* names of the inputs that exist in OBS
    show,         \* show_label and show_unit
    last_op,      \* the last OBSManager call: arguments, result, sink calls
    prev_op,      \* the OBSManager call before it, in short
    \* ---- threads and the sink client ------------------------------------
    in_sink,      \* the threads that are inside a call of the sink client
    client_pc,    \* per thread: the statement of OBSClient it is about to run
    \* ---- the functions on messages --------------------------------------
    call          \* the last function call: its arguments and what it did

fr_vars == <<fr_dec, fr_stream, fr_pos, fr_chunks, fr_buffer, fr_out, fr_open>>

br_vars == <<variant, running, main_pc, retry_count, listener, conn, wire,
             buffers, sent, data_queue, ticket, dispatched, sink_up, obs,
             accepted_late>>

hs_vars == <<to_device, has_read, hs_failed, processed>>

src_vars == <<created_sources, sink_inputs, show, last_op, prev_op>>

th_vars == <<in_sink, client_pc>>

fn_vars == <<call>>

vars == <<fr_dec, fr_stream, fr_pos, fr_chunks, fr_buffer, fr_out, fr_open,
          variant, running, main_pc, retry_count, listener, conn, wire,
          buffers, sent, data_queue, ticket, dispatched, sink_up, obs,
          accepted_late, to_device, has_read, hs_failed, processed,
          created_sources, sink_inputs, show, last_op, prev_op,
          in_sink, client_pc, call>>

(***************************************************************************)
(* Text.  A text is a sequence of one-character strings.                   *)
(***************************************************************************)
Range(s) == {s[i] : i \in 1..Len(s)}

Digits == {"1", "2"}

\* The characters str.strip() removes and json.loads skips between tokens.
IsWs(ch) == ch \in {" ", "\n"}

RECURSIVE LStrip(_)
LStrip(s) == IF s # <<>> /\ IsWs(Head(s)) THEN LStrip(Tail(s)) ELSE s

RECURSIVE RStrip(_)
RStrip(s) ==
    IF s # <<>> /\ IsWs(s[Len(s)]) THEN RStrip(SubSeq(s, 1, Len(s) - 1)) ELSE s

\* str.strip()
Strip(s) == RStrip(LStrip(s))

\* Index of the first "\n" of s, 0 when there is none ('\n' in buffer).
RECURSIVE FirstNL(_, _)
FirstNL(s, i) ==
    IF i > Len(s) THEN 0 ELSE IF s[i] = "\n" THEN i ELSE FirstNL(s, i + 1)

\* buffer.split('\n', 1): the text before the first newline, and the rest.
SplitLine(s) == SubSeq(s, 1, FirstNL(s, 1) - 1)
SplitRest(s) == SubSeq(s, FirstNL(s, 1) + 1, Len(s))

(***************************************************************************)
(* json.loads on the JSON subset the streams use:                          *)
(*   value  ::= object | string | number                                   *)
(*   object ::= "{" [ string ":" value { "," string ":" value } ] "}"      *)
(*   string ::= '"' { character other than '"' and newline } '"'           *)
(*   number ::= digit { digit }                                            *)
(* with whitespace allowed between tokens.  The scanners return the index  *)
(* after what they recognised, 0 for a syntax error (JSONDecodeError).     *)
(***************************************************************************)
RECURSIVE SkipWs(_, _)
SkipWs(s, i) == IF i <= Len(s) /\ IsWs(s[i]) THEN SkipWs(s, i + 1) ELSE i

RECURSIVE ScanString(_, _)
ScanString(s, i) ==
    IF i > Len(s) THEN 0
    ELSE IF s[i] = "\"" THEN i + 1
    ELSE IF s[i] = "\n" THEN 0
    ELSE ScanString(s, i + 1)

RECURSIVE ScanNumber(_, _)
ScanNumber(s, i) ==
    IF i <= Len(s) /\ s[i] \in Digits THEN ScanNumber(s, i + 1) ELSE i

RECURSIVE ParseValue(_, _), ParseMembers(_, _)
ParseValue(s, i0) ==
    LET i == SkipWs(s, i0) IN
    IF i > Len(s) THEN 0
    ELSE IF s[i] = "{" THEN
        LET j == SkipWs(s, i + 1) IN
        IF j <= Len(s) /\ s[j] = "}" THEN j + 1 ELSE ParseMembers(s, j)
    ELSE IF s[i] = "\"" THEN ScanString(s, i + 1)
    ELSE IF s[i] \in Digits THEN ScanNumber(s, i)
    ELSE 0

ParseMembers(s, i0) ==
    LET i == SkipWs(s, i0) IN
    IF i > Len(s) \/ s[i] # "\"" THEN 0
    ELSE LET k == ScanString(s, i + 1) IN
    IF k = 0 THEN 0
    ELSE LET c == SkipWs(s, k) IN
    IF c > Len(s) \/ s[c] # ":" THEN 0
    ELSE LET v == ParseValue(s, c + 1) IN
    IF v = 0 THEN 0
    ELSE LET e == SkipWs(s, v) IN
    IF e > Len(s) THEN 0
    ELSE IF s[e] = "}" THEN e + 1
    ELSE IF s[e] = "," THEN ParseMembers(s, e + 1)
    ELSE 0

\* TRUE when json.loads(s) returns, FALSE when it raises JSONDecodeError.
JsonOk(s) ==
    LET j == ParseValue(s, 1) IN j # 0 /\ SkipWs(s, j) = Len(s) + 1

\* The value json.loads(s) returns, written as its text without the
\* whitespace between tokens (whitespace inside a string is part of the value).
RECURSIVE Canon(_, _)
Canon(s, inString) ==
    IF s = <<>> THEN <<>>
    ELSE IF Head(s) = "\"" THEN <<Head(s)>> \o Canon(Tail(s), ~inString)
    ELSE IF IsWs(Head(s)) /\ ~inString THEN Canon(Tail(s), inString)
    ELSE <<Head(s)>> \o Canon(Tail(s), inString)

JsonLoads(s) == Canon(s, FALSE)

(***************************************************************************)
(* bytes.decode('utf-8').  A byte below 0x80 is the character of the same  *)
(* name; the two bytes "xC3" "xA9" are the one character "e-acute"; a      *)
(* lead byte without its continuation byte, a continuation byte on its own *)
(* and the byte "xFF" raise UnicodeDecodeError (ok = FALSE).               *)
(***************************************************************************)
RECURSIVE Utf8Decode(_)
Utf8Decode(b) ==
    IF b = <<>> THEN [ok |-> TRUE, text |-> <<>>]
    ELSE IF b[1] = "xC3"
    THEN IF Len(b) >= 2 /\ b[2] = "xA9"
         THEN LET r == Utf8Decode(SubSeq(b, 3, Len(b)))
              IN [ok |-> r.ok, text |-> <<"e-acute">> \o r.text]
         ELSE [ok |-> FALSE, text |-> <<>>]
    ELSE IF b[1] \in {"xA9", "xFF"} THEN [ok |-> FALSE, text |-> <<>>]
    ELSE LET r == Utf8Decode(Tail(b))
         IN [ok |-> r.ok, text |-> <<b[1]>> \o r.text]

(***************************************************************************)
(* The three frame decoders: what one handler does with its buffer after   *)
(* it appended a received chunk.  Each returns the buffer it keeps and the *)
(* messages decoded so far.                                                *)
(***************************************************************************)
Decoded(buffer, out) == [buffer |-> buffer, out |-> out]

\* One newline-terminated line: json.loads of the stripped line, skipped when
\* the line is empty or not JSON.
EmitLine(out, line) ==
    LET text == Strip(line) IN
    IF text # <<>> /\ JsonOk(text) THEN Append(out, JsonLoads(text)) ELSE out

\* DataListener._handle_client / DataServer._handle_client:
\*   while '\n' in buffer: line, buffer = buffer.split('\n', 1) ...
RECURSIVE NLDrain(_, _)
NLDrain(buffer, out) ==
    IF FirstNL(buffer, 1) = 0 THEN Decoded(buffer, out)
    ELSE NLDrain(SplitRest(buffer), EmitLine(out, SplitLine(buffer)))

\* A whole-buffer decoder without the newline search: it waits until the
\* buffer as a whole is one JSON text.
RECURSIVE PluginDrainNoFallback(_, _)
PluginDrainNoFallback(buffer, out) ==
    IF buffer = <<>> \/ ~Utf8Decode(buffer).ok THEN Decoded(buffer, out)
    ELSE LET text == Strip(Utf8Decode(buffer).text) IN
    IF text = <<>> THEN Decoded(<<>>, out)
    ELSE IF JsonOk(text) THEN Decoded(<<>>, Append(out, JsonLoads(text)))
    ELSE Decoded(buffer, out)

\* The plugin's handle_client.  Its buffer holds bytes: the whole buffer is
\* decoded (UnicodeDecodeError: break, the buffer is kept), the stripped text
\* parsed as a whole, then the newline search on the bytes, where a line
\* that does not decode or does not parse is passed over.
RECURSIVE PluginDrain(_, _)
PluginDrain(buffer, out) ==
    IF buffer = <<>> \/ ~Utf8Decode(buffer).ok THEN Decoded(buffer, out)
    ELSE LET text == Strip(Utf8Decode(buffer).text) IN
    IF text = <<>> THEN Decoded(<<>>, out)
    ELSE IF JsonOk(text) THEN PluginDrain(<<>>, Append(out, JsonLoads(text)))
    ELSE IF FirstNL(buffer, 1) # 0
         THEN LET line == Utf8Decode(SplitLine(buffer)) IN
              PluginDrain(SplitRest(buffer),
                          IF line.ok THEN EmitLine(out, line.text) ELSE out)
    ELSE Decoded(buffer, out)

\* OpenAPIServer._handle_client: the buffer itself is stripped on every pass
\* of the loop, before the whole-buffer parse and the newline search.
RECURSIVE OpenAPIDrain(_, _)
OpenAPIDrain(buffer0, out) ==
    IF buffer0 = <<>> THEN Decoded(buffer0, out)
    ELSE LET buffer == Strip(buffer0) IN
    IF buffer = <<>> THEN Decoded(<<>>, out)
    ELSE IF JsonOk(buffer) THEN OpenAPIDrain(<<>>, Append(out, JsonLoads(buffer)))
    ELSE IF FirstNL(buffer, 1) # 0
         THEN OpenAPIDrain(SplitRest(buffer), EmitLine(out, SplitLine(buffer)))
    ELSE Decoded(buffer, out)

(***************************************************************************)
(* The streams a peer sends.                                               *)
(***************************************************************************)
ObjX == <<"{", "\"", "x", "\"", ":", "1", "}">>
ObjY == <<"{", "\"", "y", "\"", ":", "2", "}">>
Junk == <<"z", "z">>
NL == <<"\n">>

StreamXY == ObjX \o NL \o ObjY \o NL
StreamJunkY == Junk \o NL \o ObjY \o NL
StreamXJunkY == ObjX \o NL \o Junk \o NL \o ObjY \o NL

\* The second message is complete but not followed by a newline.
StreamXYNoNL == ObjX \o NL \o ObjY

\* One message with a space between two tokens and a space inside a string.
StreamSpaced ==
    <<"{", "\"", "x", "\"", ":", " ", "\"", "a", " ", "b", "\"", "}">> \o NL

\* One message whose string holds a two-byte character.
StreamAccent ==
    <<"{", "\"", "x", "\"", ":", "\"", "xC3", "xA9", "\"", "}">> \o NL

\* A line that is not valid UTF-8, then a valid message.
StreamBadUtf8Y == <<"xFF">> \o NL \o ObjY \o NL

Streams == {StreamXY, StreamJunkY, StreamXJunkY, StreamXYNoNL,
            StreamSpaced, StreamAccent, StreamBadUtf8Y}

\* The newline-terminated lines of a stream that are valid UTF-8 and valid
\* JSON, in order: what a decoder has to emit for it.
ValidLines(stream) ==
    LET RECURSIVE Lines(_, _)
        Lines(bytes, out) ==
            IF FirstNL(bytes, 1) = 0 THEN out
            ELSE LET line == Utf8Decode(SplitLine(bytes)) IN
                 Lines(SplitRest(bytes),
                       IF line.ok THEN EmitLine(out, line.text) ELSE out)
    IN Lines(stream, <<>>)

(***************************************************************************)
(* The parts of the state a specification does not use stay at these       *)
(* values.                                                                 *)
(***************************************************************************)
Conns == {"c1", "c2"}

FrIdle ==
    /\ fr_dec = "none"
    /\ fr_stream = <<>>
    /\ fr_pos = 0
    /\ fr_chunks = 0
    /\ fr_buffer = <<>>
    /\ fr_out = <<>>
    /\ fr_open = FALSE

BrIdle ==
    /\ variant = "none"
    /\ running = FALSE
    /\ main_pc = "none"
    /\ retry_count = 0
    /\ listener = [running |-> FALSE, thread |-> "none"]
    /\ conn = [c \in Conns |-> [state |-> "none", socket |-> "none"]]
    /\ wire = [c \in Conns |-> <<>>]
    /\ buffers = [c \in Conns |-> <<>>]
    /\ sent = [c \in Conns |-> 0]
    /\ data_queue = <<>>
    /\ ticket = 0
    /\ dispatched = <<>>
    /\ sink_up = FALSE
    /\ obs = [connected |-> FALSE, client |-> "none"]
    /\ accepted_late = FALSE

HsIdle ==
    /\ to_device = [c \in Conns |-> <<>>]
    /\ has_read = [c \in Conns |-> FALSE]
    /\ hs_failed = [c \in Conns |-> FALSE]
    /\ processed = <<>>

NoOp == [op |-> "none"]

SrcIdle ==
    /\ created_sources = {}
    /\ sink_inputs = {}
    /\ show = [label |-> TRUE, unit |-> TRUE]
    /\ last_op = NoOp
    /\ prev_op = NoOp

NoCall == [fn |-> "none"]

\* The threads that use the sink client: the handler thread of each
\* connection and the main thread.
Threads == Conns \cup {"main"}

\* No thread is inside the sink client and no function has been called.
AuxIdle ==
    /\ in_sink = {}
    /\ client_pc = [t \in Threads |-> "idle"]
    /\ call = NoCall

(***************************************************************************)
(* SpecFraming                                                             *)
(***************************************************************************)
FrInit ==
    /\ fr_dec \in {"nl", "plugin", "openapi"}
    /\ fr_stream \in Streams
    /\ fr_pos = 0
    /\ fr_chunks = 0
    /\ fr_buffer = <<>>
    /\ fr_out = <<>>
    /\ fr_open = TRUE
    /\ BrIdle
    /\ HsIdle
    /\ SrcIdle
    /\ AuxIdle

\* recv() returns the next n bytes of the stream; the handler appends them to
\* its buffer and runs its decode loop.
FrChunk(n) == SubSeq(fr_stream, fr_pos + 1, fr_pos + n)

FrAdvance(n, d) ==
    /\ fr_pos' = fr_pos + n
    /\ fr_chunks' = fr_chunks + 1
    /\ fr_buffer' = d.buffer
    /\ fr_out' = d.out
    /\ UNCHANGED <<fr_dec, fr_stream, fr_open>>
    /\ UNCHANGED <<br_vars, hs_vars, src_vars, th_vars, fn_vars>>

\* data.decode('utf-8') raised on the chunk: except Exception, then finally
\* closes the socket; the handler and its buffer are gone.
FrRaise(n) ==
    /\ fr_pos' = fr_pos + n
    /\ fr_chunks' = fr_chunks + 1
    /\ fr_buffer' = <<>>
    /\ fr_open' = FALSE
    /\ UNCHANGED <<fr_dec, fr_stream, fr_out>>
    /\ UNCHANGED <<br_vars, hs_vars, src_vars, th_vars, fn_vars>>

\* DataListener / DataServer: buffer += data.decode('utf-8'), then the loop.
FrRecvNL ==
    /\ fr_open /\ fr_dec = "nl"
    /\ \E n \in 1..(Len(fr_stream) - fr_pos) :
          LET data == Utf8Decode(FrChunk(n)) IN
          IF data.ok THEN FrAdvance(n, NLDrain(fr_buffer \o data.text, fr_out))
          ELSE FrRaise(n)

\* The plugin: buffer += chunk (bytes), then the loop.
FrRecvPlugin ==
    /\ fr_open /\ fr_dec = "plugin"
    /\ \E n \in 1..(Len(fr_stream) - fr_pos) :
          FrAdvance(n, PluginDrain(fr_buffer \o FrChunk(n), fr_out))

\* The OpenAPI service: buffer += data.decode('utf-8'), then the loop.
FrRecvOpenAPI ==
    /\ fr_open /\ fr_dec = "openapi"
    /\ \E n \in 1..(Len(fr_stream) - fr_pos) :
          LET data == Utf8Decode(FrChunk(n)) IN
          IF data.ok
          THEN FrAdvance(n, OpenAPIDrain(fr_buffer \o data.text, fr_out))
          ELSE FrRaise(n)

\* The peer closes after its last byte: recv() returns b"", the handler leaves
\* its loop and closes the socket; whatever is in the buffer is dropped.
FrPeerClose ==
    /\ fr_open /\ fr_pos = Len(fr_stream)
    /\ fr_open' = FALSE
    /\ UNCHANGED <<fr_dec, fr_stream, fr_pos, fr_chunks, fr_buffer, fr_out>>
    /\ UNCHANGED <<br_vars, hs_vars, src_vars, th_vars, fn_vars>>

FrNext == FrRecvNL \/ FrRecvPlugin \/ FrRecvOpenAPI \/ FrPeerClose

SpecFraming == FrInit /\ [][FrNext]_vars

(***************************************************************************)
(* The bridge (ogc_bridge.py) and the standalone service                   *)
(* (ogc_obs_service.py).                                                   *)
(*                                                                         *)
(* A message is what one line of a device carries.  Its kind says what     *)
(* json.loads makes of the line:                                           *)
(*   "shot"     an object of measurements without the key open_golf_coach  *)
(*   "enriched" an object that has open_golf_coach, with numeric metrics   *)
(*   "badtype"  an object that has open_golf_coach whose ball speed and    *)
(*              carry values are non-empty strings                         *)
(*   "empty"    the object {}                                              *)
(*   "number"   a JSON number other than 0 (not an object)                 *)
(*   "invalid"  not JSON                                                   *)
(***************************************************************************)
MaxMsgs == 2

RetryLimit == 10

Kinds == {"shot", "enriched", "badtype", "empty", "number", "invalid"}

\* json.loads(line) returns (does not raise JSONDecodeError).
IsJson(kind) == kind # "invalid"

\* Python truth value of the decoded message (`if raw_data:`).
Truthy(kind) == kind # "empty"

\* isinstance(raw_data, dict)
IsDict(kind) == kind \in {"shot", "enriched", "badtype", "empty"}

\* 'open_golf_coach' in raw_data, for a dict
HasOGC(kind) == kind \in {"enriched", "badtype"}

\* The format spec .1f applies to the ball speed and carry values.
NumericMetrics(kind) == kind # "badtype"

Newline(c) == [conn |-> c, seq |-> 0, kind |-> "nl"]
Body(c, n, k) == [conn |-> c, seq |-> n, kind |-> k]

\* Index of the first newline token of a buffer, 0 when there is none.
RECURSIVE FirstNewline(_, _)
FirstNewline(buf, i) ==
    IF i > Len(buf) THEN 0
    ELSE IF buf[i].kind = "nl" THEN i
    ELSE FirstNewline(buf, i + 1)

\* json.loads(line) succeeds: the line is one complete JSON text.
LineIsJson(line) == Len(line) = 1 /\ IsJson(line[1].kind)

\* A last-in-first-out put, which queue.Queue.put is not.
QueuePutFront(q, item) == <<item>> \o q

\* queue.Queue.put / queue.Queue.get: first in, first out.
QueuePut(q, item) == Append(q, item)

\* A handler whose put replaces what other connections have queued.
HandleLinesAlone(buf, q, t) ==
    LET k == FirstNewline(buf, 1) IN
    IF k = 0 THEN [buffer |-> buf, queue |-> q, ticket |-> t]
    ELSE [buffer |-> SubSeq(buf, k + 1, Len(buf)),
          queue |-> SelectSeq(q, LAMBDA it : it.conn = buf[1].conn)
                    \o (IF k = 2 /\ IsJson(buf[1].kind)
                        THEN <<[conn |-> buf[1].conn, seq |-> buf[1].seq,
                                kind |-> buf[1].kind, ticket |-> t + 1]>>
                        ELSE <<>>),
          ticket |-> IF k = 2 /\ IsJson(buf[1].kind) THEN t + 1 ELSE t]

\* DataListener._handle_client, lines 424-433: split off every complete line,
\* put each line that is valid JSON on the queue, keep the rest.
RECURSIVE HandleLines(_, _, _)
HandleLines(buf, q, t) ==
    LET k == FirstNewline(buf, 1) IN
    IF k = 0 THEN [buffer |-> buf, queue |-> q, ticket |-> t]
    ELSE LET line == SubSeq(buf, 1, k - 1)
             rest == SubSeq(buf, k + 1, Len(buf))
         IN IF line # <<>> /\ LineIsJson(line)
            THEN HandleLines(rest,
                             QueuePut(q, [conn |-> line[1].conn,
                                          seq |-> line[1].seq,
                                          kind |-> line[1].kind,
                                          ticket |-> t + 1]),
                             t + 1)
            ELSE HandleLines(rest, q, t)

\* A handler without the finally clause: an exception leaves the socket open.
SocketLeakOnError(reason) == IF reason = "error" THEN "open" ELSE "closed"

\* finally: client_socket.close(), whatever ended the handler.
SocketAfterExit(reason) == "closed"

HandlerExit(reason) ==
    [state |-> "Closed", socket |-> SocketAfterExit(reason), reason |-> reason]

\* OBSManager.connect
OBSConnect(o, up) ==
    IF up THEN [o EXCEPT !.connected = TRUE, !.client = "live"]
    ELSE [o EXCEPT !.connected = FALSE]

\* OBSManager.disconnect
OBSDisconnect(o) == [o EXCEPT !.connected = FALSE, !.client = "none"]

\* A start that sets the flag and creates its thread whether or not the
\* listener is running.
ListenerStartUnguarded(l, bind_ok) ==
    [running |-> TRUE,
     thread |-> IF bind_ok THEN "accepting" ELSE "failed"]

\* DataListener.start: the flag is set and the server thread started; the
\* thread binds and accepts, or ends at once when bind raises.
ListenerStart(l, bind_ok) ==
    IF l.running THEN l
    ELSE [running |-> TRUE,
          thread |-> IF bind_ok THEN "accepting" ELSE "failed"]

\* DataListener.stop: the flag is cleared and the listening socket closed, so
\* the accept loop leaves its while loop.
ListenerStop(l) ==
    [running |-> FALSE,
     thread |-> IF l.thread = "accepting" THEN "ended" ELSE l.thread]

\* OGCBridge._process_shot on a truthy item; enrich_ok is whether
\* OGCClient.process_shot returned a result.  raised: an exception leaves
\* _process_shot (TypeError of `in` on a non-container, ValueError of the
\* log line's format spec).
ProcessShot(kind, enrich_ok, o) ==
    IF ~IsDict(kind)
    THEN [raised |-> TRUE, called_ogc |-> FALSE, data |-> "none",
          pushed |-> FALSE, delivered |-> FALSE]
    ELSE LET called == ~HasOGC(kind)
             data == IF called /\ enrich_ok THEN "enriched" ELSE "raw"
         IN IF ~NumericMetrics(kind)
            THEN [raised |-> TRUE, called_ogc |-> called, data |-> data,
                  pushed |-> FALSE, delivered |-> FALSE]
            ELSE [raised |-> FALSE, called_ogc |-> called, data |-> data,
                  pushed |-> o.connected,
                  delivered |-> o.connected /\ o.client = "live"]

\* The body of OGCService.start's main loop for a truthy item:
\* update_all_sources, whose update_text_source calls return False without
\* a sink call while the manager is not connected.
ServiceShot(kind, o) ==
    [raised |-> FALSE, called_ogc |-> FALSE, data |-> "raw",
     pushed |-> o.connected,
     delivered |-> o.connected /\ o.client = "live"]

NSent == sent["c1"] + sent["c2"]

BrInit ==
    /\ variant \in {"bridge", "service"}
    /\ running = TRUE
    /\ main_pc = "connect"
    /\ retry_count = 0
    /\ listener = [running |-> FALSE, thread |-> "none"]
    /\ conn = [c \in Conns |-> [state |-> "none", socket |-> "none"]]
    /\ wire = [c \in Conns |-> <<>>]
    /\ buffers = [c \in Conns |-> <<>>]
    /\ sent = [c \in Conns |-> 0]
    /\ data_queue = <<>>
    /\ ticket = 0
    /\ dispatched = <<>>
    /\ sink_up \in BOOLEAN
    /\ obs = [connected |-> FALSE, client |-> "none", tried |-> FALSE,
              sources |-> "none"]
    /\ accepted_late = FALSE
    /\ FrIdle
    /\ HsIdle
    /\ SrcIdle
    /\ AuxIdle

Alive == main_pc \notin {"none", "crashed"}

\* A retry loop that allows one failure more than the limit.
LeavesLoopLate(v, connected, failures) ==
    connected \/ (v = "bridge" /\ failures > RetryLimit + 1)

\* A start() that goes on after its first connect attempt, whatever it
\* returned.
LeavesLoopAlways(v, connected, failures) == TRUE

\* The retry loop is left: connect() returned True, or (bridge only) the
\* failures exceed the limit and `break` is taken.
LeavesLoop(v, connected, failures) ==
    connected \/ (v = "bridge" /\ failures > RetryLimit)

\* One pass of `while self.running and not self.obs_manager.connect()`.
\* When the loop is left, the sources are created (if connected), the
\* listener is started and the main loop entered.  obs.tried: connect() has
\* been called; obs.sources: create_all_sources has been called.
ConnectAttempt ==
    /\ main_pc = "connect" /\ running
    /\ \E bind_ok \in BOOLEAN :
          LET o == OBSConnect(obs, sink_up)
              failures == IF ~o.connected /\ variant = "bridge"
                          THEN retry_count + 1 ELSE retry_count
          IN /\ retry_count' = failures
             /\ IF LeavesLoop(variant, o.connected, failures)
                THEN /\ obs' = [o EXCEPT !.tried = TRUE,
                                         !.sources = IF o.connected
                                                     THEN "created" ELSE @]
                     /\ listener' = ListenerStart(listener, bind_ok)
                     /\ main_pc' = "loop"
                ELSE /\ obs' = [o EXCEPT !.tried = TRUE]
                     /\ main_pc' = "sleep"
                     /\ UNCHANGED listener
    /\ UNCHANGED <<variant, running, conn, wire, buffers, sent, data_queue,
                   ticket, dispatched, sink_up>>
    /\ UNCHANGED <<accepted_late>>
    /\ UNCHANGED <<fr_vars, hs_vars, src_vars, th_vars, fn_vars>>

\* time.sleep(5) returns.
RetrySleepDone ==
    /\ main_pc = "sleep"
    /\ main_pc' = "connect"
    /\ UNCHANGED <<variant, running, retry_count, listener, conn, wire,
                   buffers, sent, data_queue, ticket, dispatched, sink_up, obs>>
    /\ UNCHANGED <<accepted_late>>
    /\ UNCHANGED <<fr_vars, hs_vars, src_vars, th_vars, fn_vars>>

\* One pass of the main loop that got an item from the queue.
Dispatch ==
    /\ main_pc = "loop" /\ running
    /\ data_queue # <<>>
    /\ LET item == Head(data_queue) IN
       \E enrich_ok \in BOOLEAN :
          LET r == IF variant = "bridge"
                   THEN ProcessShot(item.kind, enrich_ok, obs)
                   ELSE ServiceShot(item.kind, obs)
              entry == IF Truthy(item.kind)
                       THEN [conn |-> item.conn, seq |-> item.seq,
                             kind |-> item.kind, ticket |-> item.ticket,
                             handed |-> TRUE, raised |-> r.raised,
                             called_ogc |-> r.called_ogc,
                             enrich_ok |-> r.called_ogc /\ enrich_ok,
                             data |-> r.data, pushed |-> r.pushed,
                             delivered |-> r.delivered, sink_up |-> sink_up]
                       ELSE [conn |-> item.conn, seq |-> item.seq,
                             kind |-> item.kind, ticket |-> item.ticket,
                             handed |-> FALSE, raised |-> FALSE,
                             called_ogc |-> FALSE, enrich_ok |-> FALSE,
                             data |-> "none", pushed |-> FALSE,
                             delivered |-> FALSE, sink_up |-> sink_up]
          IN /\ data_queue' = Tail(data_queue)
             /\ dispatched' = Append(dispatched, entry)
             /\ main_pc' = IF entry.raised THEN "crashed" ELSE "loop"
    /\ UNCHANGED <<variant, running, retry_count, listener, conn, wire,
                   buffers, sent, ticket, sink_up, obs>>
    /\ UNCHANGED <<accepted_late>>
    /\ UNCHANGED <<fr_vars, hs_vars, src_vars, th_vars, fn_vars>>

\* SIGINT / SIGTERM: the signal handler calls stop() and then sys.exit(0).
Stop ==
    /\ main_pc \in {"connect", "sleep", "loop"} /\ running
    /\ running' = FALSE
    /\ listener' = ListenerStop(listener)
    /\ obs' = OBSDisconnect(obs)
    /\ main_pc' = "stopped"
    /\ UNCHANGED <<variant, retry_count, conn, wire, buffers, sent,
                   data_queue, ticket, dispatched, sink_up>>
    /\ UNCHANGED <<accepted_late>>
    /\ UNCHANGED <<fr_vars, hs_vars, src_vars, th_vars, fn_vars>>

\* The accept loop accepts a connection and starts its handler thread, which
\* enters its read loop.  Connections are named in the order of their accept.
Accept(c) ==
    /\ Alive /\ listener.running /\ listener.thread = "accepting"
    /\ conn[c].state = "none"
    /\ c = "c2" => conn["c1"].state # "none"
    /\ conn' = [conn EXCEPT ![c] = [state |-> "Streaming", socket |-> "open"]]
    /\ accepted_late' = (accepted_late \/ \E d \in Conns : conn[d].state = "Closed")
    /\ UNCHANGED <<variant, running, main_pc, retry_count, listener, wire,
                   buffers, sent, data_queue, ticket, dispatched, sink_up, obs>>
    /\ UNCHANGED <<fr_vars, hs_vars, src_vars, th_vars, fn_vars>>

\* The device writes one newline-terminated message.
DeviceSend(c, kinds) ==
    /\ Alive /\ conn[c].socket = "open"
    /\ NSent < MaxMsgs
    /\ \E k \in kinds :
          wire' = [wire EXCEPT ![c] =
                      @ \o <<Body(c, sent[c] + 1, k), Newline(c)>>]
    /\ sent' = [sent EXCEPT ![c] = @ + 1]
    /\ UNCHANGED <<variant, running, main_pc, retry_count, listener, conn,
                   buffers, data_queue, ticket, dispatched, sink_up, obs>>
    /\ UNCHANGED <<accepted_late>>
    /\ UNCHANGED <<fr_vars, hs_vars, src_vars, th_vars, fn_vars>>

\* recv() returns some of the bytes in flight; the handler appends them to its
\* buffer, handles the complete lines and evaluates `while self.running`.
Recv(c) ==
    /\ Alive /\ conn[c].state = "Streaming"
    /\ wire[c] # <<>>
    /\ \E n \in 1..Len(wire[c]) :
          \E h \in {HandleLines(buffers[c] \o SubSeq(wire[c], 1, n),
                                data_queue, ticket)} :
             /\ wire' = [wire EXCEPT ![c] = SubSeq(@, n + 1, Len(@))]
             /\ buffers' = [buffers EXCEPT ![c] = h.buffer]
             /\ data_queue' = h.queue
             /\ ticket' = h.ticket
    /\ conn' = [conn EXCEPT ![c] =
                   IF listener.running THEN @ ELSE HandlerExit("shutdown")]
    /\ UNCHANGED <<variant, running, main_pc, retry_count, listener, sent,
                   dispatched, sink_up, obs>>
    /\ UNCHANGED <<accepted_late>>
    /\ UNCHANGED <<fr_vars, hs_vars, src_vars, th_vars, fn_vars>>

\* The device closes the connection after everything it wrote was received:
\* recv() returns b"" and the handler leaves its loop.
PeerClose(c) ==
    /\ Alive /\ conn[c].state = "Streaming"
    /\ wire[c] = <<>>
    /\ conn' = [conn EXCEPT ![c] = HandlerExit("eof")]
    /\ UNCHANGED <<variant, running, main_pc, retry_count, listener, wire,
                   buffers, sent, data_queue, ticket, dispatched, sink_up, obs>>
    /\ UNCHANGED <<accepted_late>>
    /\ UNCHANGED <<fr_vars, hs_vars, src_vars, th_vars, fn_vars>>

\* recv() raises (connection reset): except Exception, then finally.
RecvError(c) ==
    /\ Alive /\ conn[c].state = "Streaming"
    /\ conn' = [conn EXCEPT ![c] = HandlerExit("error")]
    /\ wire' = [wire EXCEPT ![c] = <<>>]
    /\ UNCHANGED <<variant, running, main_pc, retry_count, listener,
                   buffers, sent, data_queue, ticket, dispatched, sink_up, obs>>
    /\ UNCHANGED <<accepted_late>>
    /\ UNCHANGED <<fr_vars, hs_vars, src_vars, th_vars, fn_vars>>

\* OBS goes away: an open websocket session is dead from then on.
SinkDown ==
    /\ Alive /\ sink_up
    /\ sink_up' = FALSE
    /\ obs' = [obs EXCEPT !.client = IF @ = "live" THEN "dead" ELSE @]
    /\ UNCHANGED <<variant, running, main_pc, retry_count, listener, conn,
                   wire, buffers, sent, data_queue, ticket, dispatched>>
    /\ UNCHANGED <<accepted_late>>
    /\ UNCHANGED <<fr_vars, hs_vars, src_vars, th_vars, fn_vars>>

\* OBS is reachable again.
SinkUp ==
    /\ Alive /\ ~sink_up
    /\ sink_up' = TRUE
    /\ UNCHANGED <<variant, running, main_pc, retry_count, listener, conn,
                   wire, buffers, sent, data_queue, ticket, dispatched, obs>>
    /\ UNCHANGED <<accepted_late>>
    /\ UNCHANGED <<fr_vars, hs_vars, src_vars, th_vars, fn_vars>>

BrNext ==
    \/ ConnectAttempt
    \/ RetrySleepDone
    \/ Dispatch
    \/ Stop
    \/ \E c \in Conns : Accept(c)
    \/ \E c \in Conns : DeviceSend(c, Kinds)
    \/ \E c \in Conns : Recv(c)
    \/ \E c \in Conns : PeerClose(c)
    \/ \E c \in Conns : RecvError(c)

SpecBridge == BrInit /\ [][BrNext]_vars

\* The main thread keeps running: a retry or a wake-up that is possible is
\* eventually taken.
SpecBridgeFair ==
    BrInit /\ [][BrNext]_vars /\ WF_vars(ConnectAttempt) /\ WF_vars(RetrySleepDone)

\* Every thread of the program keeps running: the main thread as in
\* SpecBridgeFair, the dispatch loop takes an item that is queued, and a
\* handler whose recv() has bytes to return gets them.  Nothing is assumed
\* of the devices: they need not send, close or reset.
SpecShutdownFair ==
    /\ BrInit /\ [][BrNext]_vars
    /\ WF_vars(ConnectAttempt) /\ WF_vars(RetrySleepDone)
    /\ WF_vars(Dispatch)
    /\ \A c \in Conns : WF_vars(Recv(c))

(***************************************************************************)
(* The bridge with a sink that comes and goes.  The devices send shots     *)
(* only.                                                                   *)
(***************************************************************************)
SinkNext ==
    \/ ConnectAttempt
    \/ RetrySleepDone
    \/ Dispatch
    \/ Stop
    \/ SinkDown
    \/ SinkUp
    \/ \E c \in Conns : Accept(c)
    \/ \E c \in Conns : DeviceSend(c, {"shot"})
    \/ \E c \in Conns : Recv(c)
    \/ \E c \in Conns : PeerClose(c)
    \/ \E c \in Conns : RecvError(c)

SpecSink == BrInit /\ [][SinkNext]_vars

(***************************************************************************)
(* The handshake variants: the OBS script (obs_open_golf_coach.py) and the *)
(* OpenAPI service (ogc_openapi_service.py).  A connection is "Accepted"   *)
(* from accept() until its handler has sent the handshake.  The script is  *)
(* taken with the opengolfcoach library installed (HAS_OGC); without it    *)
(* process_shot returns what its except branch returns.                    *)
(***************************************************************************)
OPENAPI_HANDSHAKE == [Code |-> 201, GameId |-> "OpenGolfCoach"]

\* handshake = OPENAPI_HANDSHAKE + "\n"
HandshakeMessage == [json |-> OPENAPI_HANDSHAKE, terminator |-> "nl"]

\* str.strip / bytes.strip on a buffer of message and newline tokens.
RECURSIVE TokLStrip(_)
TokLStrip(buf) ==
    IF buf # <<>> /\ buf[1].kind = "nl" THEN TokLStrip(Tail(buf)) ELSE buf

RECURSIVE TokRStrip(_)
TokRStrip(buf) ==
    IF buf # <<>> /\ buf[Len(buf)].kind = "nl"
    THEN TokRStrip(SubSeq(buf, 1, Len(buf) - 1))
    ELSE buf

TokStrip(buf) == TokRStrip(TokLStrip(buf))

\* The decode loop of handle_client: the messages it hands to process_shot,
\* each with the branch that decoded it, and the buffer it keeps.
RECURSIVE PluginFrames(_, _)
PluginFrames(buf, out) ==
    IF buf = <<>> THEN [buffer |-> <<>>, out |-> out]
    ELSE LET text == TokStrip(buf) IN
         IF text = <<>> THEN [buffer |-> <<>>, out |-> out]
         ELSE IF LineIsJson(text)
         THEN [buffer |-> <<>>,
               out |-> Append(out, [msg |-> text[1], branch |-> "whole"])]
         ELSE LET k == FirstNewline(buf, 1) IN
              IF k = 0 THEN [buffer |-> buf, out |-> out]
              ELSE LET line == TokStrip(SubSeq(buf, 1, k - 1))
                       rest == SubSeq(buf, k + 1, Len(buf))
                   IN PluginFrames(rest,
                         IF LineIsJson(line)
                         THEN Append(out, [msg |-> line[1], branch |-> "line"])
                         ELSE out)

\* The decode loop of OpenAPIServer._handle_client, which strips the buffer
\* itself on every pass.
RECURSIVE OpenAPIFrames(_, _)
OpenAPIFrames(buf, out) ==
    IF buf = <<>> THEN [buffer |-> <<>>, out |-> out]
    ELSE LET b == TokStrip(buf) IN
         IF b = <<>> THEN [buffer |-> <<>>, out |-> out]
         ELSE IF LineIsJson(b)
         THEN [buffer |-> <<>>,
               out |-> Append(out, [msg |-> b[1], branch |-> "whole"])]
         ELSE LET k == FirstNewline(b, 1) IN
              IF k = 0 THEN [buffer |-> b, out |-> out]
              ELSE LET line == TokStrip(SubSeq(b, 1, k - 1))
                       rest == SubSeq(b, k + 1, Len(b))
                   IN OpenAPIFrames(rest,
                         IF LineIsJson(line)
                         THEN Append(out, [msg |-> line[1], branch |-> "line"])
                         ELSE out)

\* process_shot of the script.  result is what it returns: "enriched" the
\* library's result, "raw" its input, "none" None.
PluginProcessShot(kind, enrich_ok) ==
    IF ~IsDict(kind)
    THEN [raised |-> TRUE, called_ogc |-> FALSE, result |-> "none"]
    ELSE IF HasOGC(kind)
    THEN [raised |-> FALSE, called_ogc |-> FALSE, result |-> "raw"]
    ELSE IF kind = "empty"
    THEN [raised |-> FALSE, called_ogc |-> FALSE, result |-> "none"]
    ELSE [raised |-> FALSE, called_ogc |-> TRUE,
          result |-> IF enrich_ok THEN "enriched" ELSE "raw"]

\* process_shot of the OpenAPI service: convert_openapi_to_ogc raises on a
\* message that is not an object, gives {} for an object without BallData.
OpenAPIProcessShot(kind, enrich_ok) ==
    IF ~IsDict(kind)
    THEN [raised |-> TRUE, called_ogc |-> FALSE, result |-> "none"]
    ELSE IF kind # "shot"
    THEN [raised |-> FALSE, called_ogc |-> FALSE, result |-> "none"]
    ELSE [raised |-> FALSE, called_ogc |-> TRUE,
          result |-> IF enrich_ok THEN "enriched" ELSE "none"]

\* OBSClient.connect
OBSClientConnect(o, up) ==
    IF up THEN [connected |-> TRUE, client |-> "live"]
    ELSE [connected |-> FALSE, client |-> "unconnected"]

\* OBSClient.send
OBSClientSend(o, up) ==
    LET o1 == IF o.connected THEN o ELSE OBSClientConnect(o, up) IN
    IF ~o1.connected THEN [obs |-> o1, ok |-> FALSE]
    ELSE IF o1.client = "live" THEN [obs |-> o1, ok |-> TRUE]
    ELSE [obs |-> [connected |-> FALSE, client |-> "none"], ok |-> FALSE]

\* OBSClient.disconnect
OBSClientDisconnect(o) == [connected |-> FALSE, client |-> "none"]

\* What the handler does with one decoded message.  st is the handler's view
\* of the shared state; metrics_ok says whether the library's result carries
\* numeric ball speed and carry values.
HsEntry(f, p, raised, forwarded, delivered) ==
    [conn |-> f.msg.conn, seq |-> f.msg.seq, kind |-> f.msg.kind,
     branch |-> f.branch, called_ogc |-> p.called_ogc,
     enrich_failed |-> p.called_ogc /\ p.result # "enriched",
     raised |-> raised, forwarded |-> forwarded, delivered |-> delivered]

PluginHandleOne(f, st, enrich_ok) ==
    LET p == PluginProcessShot(f.msg.kind, enrich_ok) IN
    IF p.raised
    THEN [st EXCEPT !.raised = TRUE,
                    !.log = Append(@, HsEntry(f, p, TRUE, FALSE, FALSE))]
    ELSE IF p.result = "none"
    THEN [st EXCEPT !.log = Append(@, HsEntry(f, p, FALSE, FALSE, FALSE))]
    ELSE [st EXCEPT
            !.queue = QueuePut(@, [conn |-> f.msg.conn, seq |-> f.msg.seq,
                                   kind |-> f.msg.kind,
                                   ticket |-> st.ticket + 1]),
            !.ticket = @ + 1,
            !.log = Append(@, HsEntry(f, p, FALSE, TRUE, FALSE))]

OpenAPIHandleOne(f, st, enrich_ok, metrics_ok, up) ==
    LET p == OpenAPIProcessShot(f.msg.kind, enrich_ok) IN
    IF p.raised
    THEN [st EXCEPT !.raised = TRUE,
                    !.log = Append(@, HsEntry(f, p, TRUE, FALSE, FALSE))]
    ELSE IF p.result = "none"
    THEN [st EXCEPT !.log = Append(@, HsEntry(f, p, FALSE, FALSE, FALSE))]
    ELSE IF f.branch = "whole" /\ ~metrics_ok
    THEN [st EXCEPT !.raised = TRUE,
                    !.log = Append(@, HsEntry(f, p, TRUE, FALSE, FALSE))]
    ELSE LET snd == OBSClientSend(st.obs, up) IN
         [st EXCEPT !.obs = snd.obs,
                    !.log = Append(@, HsEntry(f, p, FALSE, TRUE, snd.ok))]

\* The decoded messages of one recv(), in order, up to the first exception.
RECURSIVE HsHandleFrames(_, _, _, _, _, _)
HsHandleFrames(frames, st, v, enrich_ok, metrics_ok, up) ==
    IF frames = <<>> \/ st.raised THEN st
    ELSE HsHandleFrames(Tail(frames),
                        IF v = "plugin"
                        THEN PluginHandleOne(Head(frames), st, enrich_ok)
                        ELSE OpenAPIHandleOne(Head(frames), st, enrich_ok,
                                              metrics_ok, up),
                        v, enrich_ok, metrics_ok, up)

\* A handler that would enter its read loop whether or not sendall raised.
HandshakeFailureIgnored(ok, run) == [state |-> "Streaming", socket |-> "open"]

\* The handler after client_socket.sendall(handshake): it enters its read
\* loop, or the exception takes it to except Exception and finally.
HandshakeResult(ok, run) ==
    IF ~ok THEN HandlerExit("error")
    ELSE IF run THEN [state |-> "Streaming", socket |-> "open"]
    ELSE HandlerExit("shutdown")

\* What the devices of the handshake variants send.
HsKinds == {"shot", "enriched", "number", "invalid"}

HsInit ==
    /\ variant \in {"plugin", "openapi"}
    /\ running = TRUE
    /\ main_pc = "serving"
    /\ retry_count = 0
    /\ listener = [running |-> TRUE, thread |-> "accepting"]
    /\ conn = [c \in Conns |-> [state |-> "none", socket |-> "none"]]
    /\ wire = [c \in Conns |-> <<>>]
    /\ buffers = [c \in Conns |-> <<>>]
    /\ sent = [c \in Conns |-> 0]
    /\ data_queue = <<>>
    /\ ticket = 0
    /\ dispatched = <<>>
    /\ sink_up \in BOOLEAN
    /\ obs = [connected |-> FALSE, client |-> "none"]
    /\ accepted_late = FALSE
    /\ FrIdle
    /\ HsIdle
    /\ SrcIdle
    /\ AuxIdle

\* accept() returns and the handler thread is started.
HsAccept(c) ==
    /\ listener.running /\ listener.thread = "accepting"
    /\ conn[c].state = "none"
    /\ c = "c2" => conn["c1"].state # "none"
    /\ conn' = [conn EXCEPT ![c] = [state |-> "Accepted", socket |-> "open"]]
    /\ accepted_late' = (accepted_late \/ \E d \in Conns : conn[d].state = "Closed")
    /\ UNCHANGED <<variant, running, main_pc, retry_count, listener, wire,
                   buffers, sent, data_queue, ticket, dispatched, sink_up, obs>>
    /\ UNCHANGED <<fr_vars, hs_vars, src_vars, th_vars, fn_vars>>

\* The handler's first statement: sendall of the handshake, which the peer
\* lets succeed or fail.
HsHandshake(c) ==
    /\ conn[c].state = "Accepted"
    /\ \E ok \in BOOLEAN :
          /\ to_device' = [to_device EXCEPT ![c] =
                              IF ok THEN Append(@, HandshakeMessage) ELSE @]
          /\ hs_failed' = [hs_failed EXCEPT ![c] = ~ok]
          /\ conn' = [conn EXCEPT ![c] = HandshakeResult(ok, listener.running)]
          /\ wire' = [wire EXCEPT ![c] = IF ok THEN @ ELSE <<>>]
    /\ UNCHANGED <<variant, running, main_pc, retry_count, listener,
                   buffers, sent, data_queue, ticket, dispatched, sink_up, obs,
                   accepted_late, has_read, processed>>
    /\ UNCHANGED <<fr_vars, src_vars, th_vars, fn_vars>>

\* recv() returns some of the bytes in flight; the handler decodes and
\* processes what it can and evaluates its loop condition.
HsRecv(c) ==
    /\ conn[c].state = "Streaming"
    /\ wire[c] # <<>>
    /\ \E n \in 1..Len(wire[c]), enrich_ok \in BOOLEAN,
          metrics_ok \in (IF variant = "openapi" THEN BOOLEAN ELSE {TRUE}) :
          \E d \in {IF variant = "plugin"
                    THEN PluginFrames(buffers[c] \o SubSeq(wire[c], 1, n), <<>>)
                    ELSE OpenAPIFrames(buffers[c] \o SubSeq(wire[c], 1, n), <<>>)} :
          \E st \in {HsHandleFrames(d.out,
                                    [queue |-> data_queue, ticket |-> ticket,
                                     obs |-> obs, log |-> processed,
                                     raised |-> FALSE],
                                    variant, enrich_ok, metrics_ok, sink_up)} :
             /\ wire' = [wire EXCEPT ![c] =
                            IF st.raised THEN <<>>
                            ELSE SubSeq(@, n + 1, Len(@))]
             /\ buffers' = [buffers EXCEPT ![c] = d.buffer]
             /\ data_queue' = st.queue
             /\ ticket' = st.ticket
             /\ obs' = st.obs
             /\ processed' = st.log
             /\ conn' = [conn EXCEPT ![c] =
                            IF st.raised THEN HandlerExit("exception")
                            ELSE IF listener.running THEN @
                            ELSE HandlerExit("shutdown")]
    /\ has_read' = [has_read EXCEPT ![c] = TRUE]
    /\ UNCHANGED <<variant, running, main_pc, retry_count, listener, sent,
                   dispatched, sink_up, accepted_late, to_device, hs_failed>>
    /\ UNCHANGED <<fr_vars, src_vars, th_vars, fn_vars>>

\* recv() times out after the flag was cleared: the handler leaves its loop.
HsRecvTimeout(c) ==
    /\ conn[c].state = "Streaming"
    /\ wire[c] = <<>>
    /\ ~listener.running
    /\ conn' = [conn EXCEPT ![c] = HandlerExit("shutdown")]
    /\ UNCHANGED <<variant, running, main_pc, retry_count, listener, wire,
                   buffers, sent, data_queue, ticket, dispatched, sink_up, obs,
                   accepted_late>>
    /\ UNCHANGED <<fr_vars, hs_vars, src_vars, th_vars, fn_vars>>

\* The script's timer callback process_data_queue: every queued item is
\* taken and shown.
ProcessDataQueue ==
    /\ variant = "plugin" /\ main_pc = "serving"
    /\ data_queue # <<>>
    /\ dispatched' = dispatched \o data_queue
    /\ data_queue' = <<>>
    /\ UNCHANGED <<variant, running, main_pc, retry_count, listener, conn,
                   wire, buffers, sent, ticket, sink_up, obs, accepted_late>>
    /\ UNCHANGED <<fr_vars, hs_vars, src_vars, th_vars, fn_vars>>

\* stop_server / OpenAPIServer.stop
HsStop ==
    /\ main_pc = "serving"
    /\ running' = FALSE
    /\ listener' = ListenerStop(listener)
    /\ obs' = IF variant = "openapi" THEN OBSClientDisconnect(obs) ELSE obs
    /\ main_pc' = "stopped"
    /\ UNCHANGED <<variant, retry_count, conn, wire, buffers, sent,
                   data_queue, ticket, dispatched, sink_up, accepted_late>>
    /\ UNCHANGED <<fr_vars, hs_vars, src_vars, th_vars, fn_vars>>

HsNext ==
    \/ HsStop
    \/ ProcessDataQueue
    \/ \E c \in Conns : HsAccept(c)
    \/ \E c \in Conns : HsHandshake(c)
    \/ \E c \in Conns : DeviceSend(c, HsKinds)
    \/ \E c \in Conns : HsRecv(c)
    \/ \E c \in Conns : HsRecvTimeout(c)
    \/ \E c \in Conns : PeerClose(c)
    \/ \E c \in Conns : RecvError(c)

SpecHandshake == HsInit /\ [][HsNext]_vars

(***************************************************************************)
(* The script restarted: script_update, on a port change, calls            *)
(* stop_server() and then start_server().  stop_server waits for the       *)
(* accept thread only; a handler thread sees the cleared flag when it next *)
(* evaluates `while state.running`, if the flag is still cleared then.  A  *)
(* handler that is in its read loop when start_server sets the flag again  *)
(* is marked `stale`.                                                      *)
(***************************************************************************)
HsStartServer ==
    /\ variant = "plugin" /\ main_pc = "stopped"
    /\ \E bind_ok \in BOOLEAN : listener' = ListenerStart(listener, bind_ok)
    /\ running' = TRUE
    /\ main_pc' = "serving"
    /\ conn' = [c \in Conns |->
                  IF conn[c].state = "Streaming"
                  THEN [state |-> "Streaming", socket |-> conn[c].socket,
                        stale |-> TRUE]
                  ELSE conn[c]]
    /\ UNCHANGED <<variant, retry_count, wire, buffers, sent, data_queue,
                   ticket, dispatched, sink_up, obs, accepted_late>>
    /\ UNCHANGED <<fr_vars, hs_vars, src_vars, th_vars, fn_vars>>

\* The script's handlers and callbacks, and the restart.
RsNext == HsNext \/ HsStartServer

\* The script, loaded and serving.
RsInit == HsInit /\ variant = "plugin"

SpecRestart == RsInit /\ [][RsNext]_vars

(***************************************************************************)
(* OBSManager (ogc_bridge.py, ogc_obs_service.py): the text sources it     *)
(* creates and updates in OBS, and its cache created_sources.  The catalog *)
(* is cut down to two of its entries, one with a unit and one without; a   *)
(* shot gives each of them a value of one of four kinds:                   *)
(*   "absent" no value at the entry's path      "number" a number          *)
(*   "text"   a non-empty string                "empty"  the string ""     *)
(***************************************************************************)
DATA_POINTS ==
    [carry_yards |-> [label |-> <<"C", "a", "r", "r", "y">>,
                      fmt |-> "{:.1f}",
                      unit |-> <<"y", "d", "s">>],
     shot_name   |-> [label |-> <<"S", "h", "o", "t", " ",
                                  "S", "h", "a", "p", "e">>,
                      fmt |-> "{}",
                      unit |-> <<>>]]

CatalogKeys == DOMAIN DATA_POINTS

\* The enabled keys handed to create_all_sources / update_all_sources; the
\* second one is not in the catalog.
EnabledKeys == <<"carry_yards", "smash", "shot_name">>

ValueKinds == {"absent", "number", "text", "empty"}

\* The shots that are pushed: a carry that is absent or a number, a shot
\* name that is absent or a string.
Shots ==
    {s \in [CatalogKeys -> ValueKinds] :
        /\ s["carry_yards"] \in {"absent", "number"}
        /\ s["shot_name"] \in {"absent", "text", "empty"}}

\* get_source_name
SourceName(key) == <<"OGC_", key>>

\* fmt.format(value), falling back to str(value): the text of a number to
\* one decimal place, the string itself, "" for the value "".
FormattedValue(kind) ==
    CASE kind = "number" -> <<"1", ".", "5">>
      [] kind = "text" -> <<"D", "r", "a", "w">>
      [] OTHER -> <<>>

\* sep.join(parts)
RECURSIVE Join(_, _)
Join(parts, sep) ==
    IF parts = <<>> THEN <<>>
    ELSE IF Len(parts) = 1 THEN parts[1]
    ELSE parts[1] \o sep \o Join(Tail(parts), sep)

\* " ".join(parts) is the empty string.
JoinIsEmpty(parts) == Join(parts, <<" ">>) = <<>>

\* A format_data_point whose unit segment does not depend on the catalog
\* entry having a unit.
FormatDataPointAlwaysUnit(key, shot, sh) ==
    IF key \notin CatalogKeys \/ shot[key] = "absent"
    THEN [none |-> TRUE, parts |-> <<>>, text |-> <<>>]
    ELSE LET parts == (IF sh.label
                       THEN <<DATA_POINTS[key].label \o <<":">> >> ELSE <<>>)
                      \o <<FormattedValue(shot[key])>>
                      \o (IF sh.unit THEN <<DATA_POINTS[key].unit>> ELSE <<>>)
         IN [none |-> FALSE, parts |-> parts, text |-> Join(parts, <<" ">>)]

\* format_data_point: None, or the parts it joins and the joined text.
FormatDataPoint(key, shot, sh) ==
    IF key \notin CatalogKeys
    THEN [none |-> TRUE, parts |-> <<>>, text |-> <<>>]
    ELSE IF shot[key] = "absent"
    THEN [none |-> TRUE, parts |-> <<>>, text |-> <<>>]
    ELSE LET parts == (IF sh.label
                       THEN <<DATA_POINTS[key].label \o <<":">> >> ELSE <<>>)
                      \o <<FormattedValue(shot[key])>>
                      \o (IF sh.unit /\ DATA_POINTS[key].unit # <<>>
                          THEN <<DATA_POINTS[key].unit>> ELSE <<>>)
         IN [none |-> FALSE, parts |-> parts, text |-> Join(parts, <<" ">>)]

\* A test that lets every result of format_data_point through, None
\* included.
FormattedAlways(f) == f.none \/ ~f.none

\* `if formatted:`
FormattedTruthy(f) == ~f.none /\ ~JoinIsEmpty(f.parts)

\* One request to OBS and whether it returned without raising.
SinkCall(op, name, ok) == [op |-> op, name |-> name, ok |-> ok]

\* The result of an OBSManager call: return value, cache and inputs of OBS
\* afterwards, the requests made, in order.
MgrResult(ret, cache, inputs, calls) ==
    [ret |-> ret, cache |-> cache, inputs |-> inputs, calls |-> calls]

\* A create_text_source that adds the name to the cache whether or not
\* create_input raised.
CreateTextSourceOptimistic(key, o, cache, inputs, create_ok) ==
    LET name == SourceName(key)
        live == o.client = "live"
    IN IF ~o.connected THEN MgrResult(FALSE, cache, inputs, <<>>)
       ELSE IF name \in cache THEN MgrResult(TRUE, cache, inputs, <<>>)
       ELSE IF live /\ name \in inputs
       THEN MgrResult(TRUE, cache \cup {name}, inputs,
                      <<SinkCall("get_input_settings", name, TRUE)>>)
       ELSE MgrResult(TRUE, cache \cup {name},
                      IF live /\ create_ok THEN inputs \cup {name} ELSE inputs,
                      <<SinkCall("get_input_settings", name, FALSE),
                        SinkCall("get_current_program_scene", name, live),
                        SinkCall("create_input", name, live /\ create_ok)>>)

\* A create_text_source without the test `source_name in created_sources`.
CreateTextSourceNoCache(key, o, cache, inputs, create_ok) ==
    LET name == SourceName(key)
        live == o.client = "live"
    IN IF ~o.connected THEN MgrResult(FALSE, cache, inputs, <<>>)
       ELSE IF live /\ name \in inputs
       THEN MgrResult(TRUE, cache \cup {name}, inputs,
                      <<SinkCall("get_input_settings", name, TRUE)>>)
       ELSE LET created == live /\ create_ok IN
            MgrResult(created,
                      IF created THEN cache \cup {name} ELSE cache,
                      IF created THEN inputs \cup {name} ELSE inputs,
                      <<SinkCall("get_input_settings", name, FALSE),
                        SinkCall("get_current_program_scene", name, live),
                        SinkCall("create_input", name, created)>>)

\* OBSManager.create_text_source.  create_ok: OBS accepts a create_input for
\* a name it does not have (it refuses, for one, an input kind it lacks).
CreateTextSource(key, o, cache, inputs, create_ok) ==
    LET name == SourceName(key)
        live == o.client = "live"
    IN IF ~o.connected THEN MgrResult(FALSE, cache, inputs, <<>>)
       ELSE IF name \in cache THEN MgrResult(TRUE, cache, inputs, <<>>)
       ELSE IF live /\ name \in inputs
       THEN MgrResult(TRUE, cache \cup {name}, inputs,
                      <<SinkCall("get_input_settings", name, TRUE)>>)
       ELSE LET created == live /\ create_ok IN
            MgrResult(created,
                      IF created THEN cache \cup {name} ELSE cache,
                      IF created THEN inputs \cup {name} ELSE inputs,
                      <<SinkCall("get_input_settings", name, FALSE),
                        SinkCall("get_current_program_scene", name, live),
                        SinkCall("create_input", name, created)>>)

\* OBSManager.source_exists
SourceExists(key, o, cache, inputs) ==
    LET name == SourceName(key)
        found == o.client = "live" /\ name \in inputs
    IN IF ~o.connected THEN MgrResult(FALSE, cache, inputs, <<>>)
       ELSE MgrResult(found, cache, inputs,
                      <<SinkCall("get_input_settings", name, found)>>)

\* An update_text_source without the test `if not self.connected`.
UpdateTextSourceUnguarded(key, o, cache, inputs, create_ok) ==
    LET name == SourceName(key)
        direct == o.client = "live" /\ name \in inputs
        set == SinkCall("set_input_settings", name, direct)
    IN IF direct THEN MgrResult(TRUE, cache, inputs, <<set>>)
       ELSE IF name \notin cache
       THEN LET cr == CreateTextSource(key, o, cache, inputs, create_ok)
            IN MgrResult(cr.ret, cr.cache, cr.inputs, <<set>> \o cr.calls)
       ELSE MgrResult(FALSE, cache, inputs, <<set>>)

\* OBSManager.update_text_source
UpdateTextSource(key, o, cache, inputs, create_ok) ==
    LET name == SourceName(key)
        direct == o.client = "live" /\ name \in inputs
        set == SinkCall("set_input_settings", name, direct)
    IN IF ~o.connected THEN MgrResult(FALSE, cache, inputs, <<>>)
       ELSE IF direct THEN MgrResult(TRUE, cache, inputs, <<set>>)
       ELSE IF name \notin cache
       THEN LET cr == CreateTextSource(key, o, cache, inputs, create_ok)
            IN MgrResult(cr.ret, cr.cache, cr.inputs, <<set>> \o cr.calls)
       ELSE MgrResult(FALSE, cache, inputs, <<set>>)

\* OBSManager.update_all_sources from the i-th enabled key on; updated lists
\* the keys update_text_source was called for.
RECURSIVE UpdateAllFrom(_, _, _, _, _, _, _)
UpdateAllFrom(i, shot, sh, o, create_ok, acc, updated) ==
    IF i > Len(EnabledKeys) THEN [res |-> acc, updated |-> updated]
    ELSE LET key == EnabledKeys[i] IN
         IF FormattedTruthy(FormatDataPoint(key, shot, sh))
         THEN LET u == UpdateTextSource(key, o, acc.cache, acc.inputs, create_ok)
              IN UpdateAllFrom(i + 1, shot, sh, o, create_ok,
                               MgrResult(u.ret, u.cache, u.inputs,
                                         acc.calls \o u.calls),
                               Append(updated, key))
         ELSE UpdateAllFrom(i + 1, shot, sh, o, create_ok, acc, updated)

UpdateAllSources(shot, sh, o, cache, inputs, create_ok) ==
    UpdateAllFrom(1, shot, sh, o, create_ok,
                  MgrResult(TRUE, cache, inputs, <<>>), <<>>)

\* OBSManager.create_all_sources from the i-th enabled key on.
RECURSIVE CreateAllFrom(_, _, _, _)
CreateAllFrom(i, o, create_ok, acc) ==
    IF i > Len(EnabledKeys) THEN acc
    ELSE LET c == CreateTextSource(EnabledKeys[i], o, acc.cache, acc.inputs,
                                   create_ok)
         IN CreateAllFrom(i + 1, o, create_ok,
                          MgrResult(c.ret, c.cache, c.inputs,
                                    acc.calls \o c.calls))

CreateAllSources(o, cache, inputs, create_ok) ==
    CreateAllFrom(1, o, create_ok, MgrResult(TRUE, cache, inputs, <<>>))

\* What is remembered of a call: its arguments, what the manager and OBS
\* were like before it, its result and its requests.
OpRecord(op, key, shot, r, updated) ==
    [op |-> op, key |-> key, shot |-> shot,
     connected |-> obs.connected, live |-> obs.client = "live",
     cache_before |-> created_sources, inputs_before |-> sink_inputs,
     ret |-> r.ret, calls |-> r.calls, inputs_after |-> r.inputs,
     updated |-> updated]

\* The requests of a call that are create_input requests.
CreateCalls(calls) == SelectSeq(calls, LAMBDA c : c.op = "create_input")

\* What is remembered of the call before the last one, when that was a
\* create_text_source.
OpSummary(r) ==
    IF r.op # "create" THEN NoOp
    ELSE [op |-> r.op, key |-> r.key, ret |-> r.ret,
          creates |-> CreateCalls(r.calls)]

NoShot == [k \in CatalogKeys |-> "absent"]

SrcInit ==
    /\ variant = "bridge"
    /\ running = TRUE
    /\ main_pc = "manager"
    /\ retry_count = 0
    /\ listener = [running |-> FALSE, thread |-> "none"]
    /\ conn = [c \in Conns |-> [state |-> "none", socket |-> "none"]]
    /\ wire = [c \in Conns |-> <<>>]
    /\ buffers = [c \in Conns |-> <<>>]
    /\ sent = [c \in Conns |-> 0]
    /\ data_queue = <<>>
    /\ ticket = 0
    /\ dispatched = <<>>
    /\ sink_up \in BOOLEAN
    /\ obs = [connected |-> FALSE, client |-> "none"]
    /\ accepted_late = FALSE
    /\ created_sources = {}
    /\ sink_inputs \in SUBSET {SourceName(k) : k \in CatalogKeys}
    /\ show \in [label : BOOLEAN, unit : BOOLEAN]
    /\ last_op = NoOp
    /\ prev_op = NoOp
    /\ FrIdle
    /\ HsIdle
    /\ AuxIdle

\* The frame of every OBSManager call.
SrcFrame ==
    /\ UNCHANGED <<variant, running, main_pc, retry_count, listener, conn,
                   wire, buffers, sent, data_queue, ticket, dispatched,
                   sink_up, accepted_late, show>>
    /\ UNCHANGED <<fr_vars, hs_vars, th_vars, fn_vars>>

SrcDone(op, key, shot, r, updated) ==
    /\ created_sources' = r.cache
    /\ sink_inputs' = r.inputs
    /\ prev_op' = OpSummary(last_op)
    /\ last_op' = OpRecord(op, key, shot, r, updated)

SrcConnect ==
    /\ obs' = OBSConnect(obs, sink_up)
    /\ SrcDone("connect", "", NoShot,
               MgrResult(sink_up, created_sources, sink_inputs, <<>>), <<>>)
    /\ SrcFrame

SrcDisconnect ==
    /\ obs' = OBSDisconnect(obs)
    /\ SrcDone("disconnect", "", NoShot,
               MgrResult(TRUE, created_sources, sink_inputs, <<>>), <<>>)
    /\ SrcFrame

SrcCreate(key) ==
    /\ \E create_ok \in BOOLEAN :
          SrcDone("create", key, NoShot,
                  CreateTextSource(key, obs, created_sources, sink_inputs,
                                   create_ok), <<>>)
    /\ UNCHANGED obs
    /\ SrcFrame

SrcUpdate(key) ==
    /\ \E create_ok \in BOOLEAN :
          SrcDone("update", key, NoShot,
                  UpdateTextSource(key, obs, created_sources, sink_inputs,
                                   create_ok), <<>>)
    /\ UNCHANGED obs
    /\ SrcFrame

SrcExists(key) ==
    /\ SrcDone("exists", key, NoShot,
               SourceExists(key, obs, created_sources, sink_inputs), <<>>)
    /\ UNCHANGED obs
    /\ SrcFrame

SrcCreateAll ==
    /\ \E create_ok \in BOOLEAN :
          SrcDone("create_all", "", NoShot,
                  CreateAllSources(obs, created_sources, sink_inputs,
                                   create_ok), <<>>)
    /\ UNCHANGED obs
    /\ SrcFrame

SrcUpdateAll ==
    /\ \E shot \in Shots, create_ok \in BOOLEAN :
          \E u \in {UpdateAllSources(shot, show, obs, created_sources,
                                     sink_inputs, create_ok)} :
             SrcDone("update_all", "", shot, u.res, u.updated)
    /\ UNCHANGED obs
    /\ SrcFrame

\* Someone else removes an input in OBS.
SinkRemove(name) ==
    /\ name \in sink_inputs
    /\ sink_inputs' = sink_inputs \ {name}
    /\ UNCHANGED <<created_sources, show, last_op, prev_op>>
    /\ UNCHANGED <<br_vars, fr_vars, hs_vars, th_vars, fn_vars>>

SrcNext ==
    \/ SrcConnect
    \/ SrcDisconnect
    \/ SrcCreateAll
    \/ SrcUpdateAll
    \/ SinkDown
    \/ SinkUp
    \/ \E key \in CatalogKeys : SrcCreate(key)
    \/ \E key \in CatalogKeys : SrcUpdate(key)
    \/ \E key \in CatalogKeys : SrcExists(key)
    \/ \E key \in CatalogKeys : SinkRemove(SourceName(key))

SpecSources == SrcInit /\ [][SrcNext]_vars

(***************************************************************************)
(* Threads and the sink client.  The bridge after a start-up that          *)
(* connected to OBS, and the OpenAPI service: the main thread, and one     *)
(* worker thread per accepted connection.  A call of the sink client       *)
(* (OBSManager.update_all_sources / disconnect, OBSClient.send /           *)
(* disconnect) takes two steps, its entry and its return; in_sink holds    *)
(* the threads between the two.  A recv() returns one line at a time.      *)
(***************************************************************************)
ThInit ==
    /\ variant \in {"bridge", "openapi"}
    /\ running = TRUE
    /\ main_pc = (IF variant = "bridge" THEN "loop" ELSE "serving")
    /\ retry_count = 0
    /\ listener = [running |-> TRUE, thread |-> "accepting"]
    /\ conn = [c \in Conns |-> [state |-> "none", socket |-> "none"]]
    /\ wire = [c \in Conns |-> <<>>]
    /\ buffers = [c \in Conns |-> <<>>]
    /\ sent = [c \in Conns |-> 0]
    /\ data_queue = <<>>
    /\ ticket = 0
    /\ dispatched = <<>>
    /\ sink_up = TRUE
    /\ obs = (IF variant = "bridge"
              THEN [connected |-> TRUE, client |-> "live", tried |-> TRUE,
                    sources |-> "created"]
              ELSE [connected |-> FALSE, client |-> "none"])
    /\ accepted_late = FALSE
    /\ AuxIdle
    /\ FrIdle
    /\ HsIdle
    /\ SrcIdle

\* A worker of the bridge: DataListener._handle_client only fills the queue.
ThListenerRecv(c) == variant = "bridge" /\ Recv(c)

\* A worker of the OpenAPI service receives a line, decodes it and has
\* process_shot enrich it; with a result it calls self.obs_client.send.
ThWorkerRecv(c) ==
    /\ variant = "openapi"
    /\ conn[c].state = "Streaming"
    /\ wire[c] # <<>>
    /\ \E enrich_ok \in BOOLEAN :
          LET k == FirstNewline(wire[c], 1)
              line == SubSeq(wire[c], 1, k - 1)
              p == OpenAPIProcessShot(line[1].kind, enrich_ok)
          IN /\ k > 1
             /\ wire' = [wire EXCEPT ![c] = SubSeq(@, k + 1, Len(@))]
             /\ IF p.result # "none"
                THEN /\ conn' = [conn EXCEPT ![c].state = "Sending"]
                     /\ in_sink' = in_sink \cup {c}
                ELSE /\ conn' = [conn EXCEPT ![c] =
                                    IF listener.running THEN @
                                    ELSE HandlerExit("shutdown")]
                     /\ UNCHANGED in_sink
    /\ UNCHANGED <<variant, running, main_pc, retry_count, listener, buffers,
                   sent, data_queue, ticket, dispatched, sink_up, obs,
                   accepted_late>>
    /\ UNCHANGED <<fr_vars, hs_vars, src_vars, fn_vars, client_pc>>

\* OBSClient.send returns to the worker, which evaluates its loop condition.
ThWorkerSendReturn(c) ==
    /\ conn[c].state = "Sending"
    /\ obs' = OBSClientSend(obs, sink_up).obs
    /\ in_sink' = in_sink \ {c}
    /\ conn' = [conn EXCEPT ![c] =
                   IF listener.running
                   THEN [state |-> "Streaming", socket |-> "open"]
                   ELSE HandlerExit("shutdown")]
    /\ UNCHANGED <<variant, running, main_pc, retry_count, listener, wire,
                   buffers, sent, data_queue, ticket, dispatched, sink_up,
                   accepted_late>>
    /\ UNCHANGED <<fr_vars, hs_vars, src_vars, fn_vars, client_pc>>

\* The bridge's main loop takes an item and, in _process_shot, calls
\* update_all_sources.
ThDispatchBegin ==
    /\ variant = "bridge" /\ main_pc = "loop" /\ running
    /\ data_queue # <<>>
    /\ obs.connected
    /\ data_queue' = Tail(data_queue)
    /\ dispatched' = Append(dispatched, Head(data_queue))
    /\ main_pc' = "updating"
    /\ in_sink' = in_sink \cup {"main"}
    /\ UNCHANGED <<variant, running, retry_count, listener, conn, wire,
                   buffers, sent, ticket, sink_up, obs, accepted_late>>
    /\ UNCHANGED <<fr_vars, hs_vars, src_vars, fn_vars, client_pc>>

\* update_all_sources returns to the main loop.
ThDispatchEnd ==
    /\ main_pc = "updating"
    /\ main_pc' = "loop"
    /\ in_sink' = in_sink \ {"main"}
    /\ UNCHANGED <<variant, running, retry_count, listener, conn, wire,
                   buffers, sent, data_queue, ticket, dispatched, sink_up,
                   obs, accepted_late>>
    /\ UNCHANGED <<fr_vars, hs_vars, src_vars, fn_vars, client_pc>>

\* The signal handler runs stop() on the main thread: the flags are cleared,
\* the listening socket is closed and disconnect() of the sink client is
\* entered.
ThStopBegin ==
    /\ main_pc \in {"loop", "serving"} /\ running
    /\ running' = FALSE
    /\ listener' = ListenerStop(listener)
    /\ main_pc' = "disconnecting"
    /\ in_sink' = in_sink \cup {"main"}
    /\ UNCHANGED <<variant, retry_count, conn, wire, buffers, sent,
                   data_queue, ticket, dispatched, sink_up, obs,
                   accepted_late>>
    /\ UNCHANGED <<fr_vars, hs_vars, src_vars, fn_vars, client_pc>>

\* disconnect() returns.
ThStopEnd ==
    /\ main_pc = "disconnecting"
    /\ obs' = (IF variant = "bridge" THEN OBSDisconnect(obs)
               ELSE OBSClientDisconnect(obs))
    /\ main_pc' = "stopped"
    /\ in_sink' = in_sink \ {"main"}
    /\ UNCHANGED <<variant, running, retry_count, listener, conn, wire,
                   buffers, sent, data_queue, ticket, dispatched, sink_up,
                   accepted_late>>
    /\ UNCHANGED <<fr_vars, hs_vars, src_vars, fn_vars, client_pc>>

ThNext ==
    \/ ThDispatchBegin
    \/ ThDispatchEnd
    \/ ThStopBegin
    \/ ThStopEnd
    \/ \E c \in Conns : Accept(c)
    \/ \E c \in Conns : DeviceSend(c, {"shot"})
    \/ \E c \in Conns : ThListenerRecv(c)
    \/ \E c \in Conns : ThWorkerRecv(c)
    \/ \E c \in Conns : ThWorkerSendReturn(c)
    \/ \E c \in Conns : PeerClose(c)

SpecThreads == ThInit /\ [][ThNext]_vars

(***************************************************************************)
(* OBSClient of the OpenAPI service, statement by statement.  The handler  *)
(* threads call send() (which calls connect() while the flag is False),    *)
(* the main thread calls disconnect() from stop(); nothing serialises      *)
(* them.  self.socket is "none" (None), "unconnected" (a new socket        *)
(* object), "live" (connected) or "closed".  client_pc names the statement *)
(* a thread runs next; up says whether OBS accepts the connection or the   *)
(* bytes.                                                                  *)
(***************************************************************************)
OBSClientStep(pc, o, up) ==
    CASE pc = "send:if not self.connected" ->
           [pc |-> IF o.connected THEN "send:sendall"
                   ELSE "connect:self.socket = socket()", obs |-> o]
      [] pc = "connect:self.socket = socket()" ->
           [pc |-> "connect:self.socket.connect",
            obs |-> [o EXCEPT !.client = "unconnected"]]
      [] pc = "connect:self.socket.connect" ->
           \* raises on None, on a socket that is connected or closed, and
           \* when OBS does not listen: except sets the flag, send returns
           IF o.client = "unconnected" /\ up
           THEN [pc |-> "connect:self.connected = True",
                 obs |-> [o EXCEPT !.client = "live"]]
           ELSE [pc |-> "idle", obs |-> [o EXCEPT !.connected = FALSE]]
      [] pc = "connect:self.connected = True" ->
           [pc |-> "send:sendall", obs |-> [o EXCEPT !.connected = TRUE]]
      [] pc = "send:sendall" ->
           [pc |-> IF o.client = "live" /\ up THEN "idle"
                   ELSE "except:self.connected = False", obs |-> o]
      [] pc = "except:self.connected = False" ->
           [pc |-> "except:self.socket = None",
            obs |-> [o EXCEPT !.connected = FALSE]]
      [] pc = "except:self.socket = None" ->
           [pc |-> "idle", obs |-> [o EXCEPT !.client = "none"]]
      [] pc = "disconnect:if self.socket" ->
           IF o.client # "none"
           THEN [pc |-> "disconnect:self.socket = None",
                 obs |-> [o EXCEPT !.client = "closed"]]
           ELSE [pc |-> "disconnect:self.connected = False", obs |-> o]
      [] pc = "disconnect:self.socket = None" ->
           [pc |-> "disconnect:self.connected = False",
            obs |-> [o EXCEPT !.client = "none"]]
      [] pc = "disconnect:self.connected = False" ->
           [pc |-> "idle", obs |-> [o EXCEPT !.connected = FALSE]]

ClInit ==
    /\ ThInit
    /\ variant = "openapi"

\* The handler of a connection has a result to send: it calls send().
ClSend(t) ==
    /\ t \in Conns /\ conn[t].state = "Streaming"
    /\ client_pc[t] = "idle"
    /\ client_pc' = [client_pc EXCEPT ![t] = "send:if not self.connected"]
    /\ in_sink' = in_sink \cup {t}
    /\ UNCHANGED <<br_vars, fr_vars, hs_vars, src_vars, fn_vars>>

\* stop() on the main thread clears the flags, closes the listening socket
\* and calls obs_client.disconnect().
ClStop ==
    /\ main_pc = "serving" /\ running
    /\ running' = FALSE
    /\ listener' = ListenerStop(listener)
    /\ main_pc' = "stopped"
    /\ client_pc' = [client_pc EXCEPT !["main"] = "disconnect:if self.socket"]
    /\ in_sink' = in_sink \cup {"main"}
    /\ UNCHANGED <<variant, retry_count, conn, wire, buffers, sent,
                   data_queue, ticket, dispatched, sink_up, obs,
                   accepted_late>>
    /\ UNCHANGED <<fr_vars, hs_vars, src_vars, fn_vars>>

\* A thread inside OBSClient runs its next statement.
ClStep(t) ==
    /\ client_pc[t] # "idle"
    /\ \E up \in BOOLEAN :
          LET r == OBSClientStep(client_pc[t], obs, up)
          IN /\ obs' = r.obs
             /\ client_pc' = [client_pc EXCEPT ![t] = r.pc]
             /\ in_sink' = IF r.pc = "idle" THEN in_sink \ {t} ELSE in_sink
    /\ UNCHANGED <<variant, running, main_pc, retry_count, listener, conn,
                   wire, buffers, sent, data_queue, ticket, dispatched,
                   sink_up, accepted_late>>
    /\ UNCHANGED <<fr_vars, hs_vars, src_vars, fn_vars>>

ClNext ==
    \/ ClStop
    \/ \E c \in Conns : Accept(c)
    \/ \E t \in Threads : ClSend(t)
    \/ \E t \in Threads : ClStep(t)

SpecClient == ClInit /\ [][ClNext]_vars

(***************************************************************************)
(* Repeated start and stop.  The bridge as in SpecSink, with two more      *)
(* calls: DataListener.start() by any caller while the bridge is up (the   *)
(* bridge's own call at the end of its retry loop then finds the listener  *)
(* running), and OGCBridge.stop() on a bridge that was stopped (a second   *)
(* signal, or start()'s own stop() after the handler's).  call keeps what  *)
(* the call found and what it left.                                        *)
(***************************************************************************)
ListenerStartAgain ==
    /\ main_pc \in {"connect", "sleep", "loop"} /\ running
    /\ \E bind_ok \in BOOLEAN :
          /\ listener' = ListenerStart(listener, bind_ok)
          /\ call' = [fn |-> "DataListener.start", before |-> listener,
                      after |-> listener']
    /\ UNCHANGED <<variant, running, main_pc, retry_count, conn, wire,
                   buffers, sent, data_queue, ticket, dispatched, sink_up,
                   obs, accepted_late>>
    /\ UNCHANGED <<fr_vars, hs_vars, src_vars, th_vars>>

StopAgain ==
    /\ main_pc = "stopped"
    /\ running' = FALSE
    /\ listener' = ListenerStop(listener)
    /\ obs' = OBSDisconnect(obs)
    /\ call' = [fn |-> "OGCBridge.stop",
                before |-> <<running, listener, obs>>,
                after |-> <<running', listener', obs'>>]
    /\ UNCHANGED <<variant, main_pc, retry_count, conn, wire, buffers, sent,
                   data_queue, ticket, dispatched, sink_up, accepted_late>>
    /\ UNCHANGED <<fr_vars, hs_vars, src_vars, th_vars>>

LcNext ==
    \/ ConnectAttempt
    \/ RetrySleepDone
    \/ Stop
    \/ SinkDown
    \/ SinkUp
    \/ ListenerStartAgain
    \/ StopAgain

SpecLifecycle == BrInit /\ [][LcNext]_vars

(***************************************************************************)
(* JSON values.  A number is m * 10^-e with no trailing zero digit behind  *)
(* the point; a string is known by the words it contains; a dict is a      *)
(* function from its keys to values.                                       *)
(***************************************************************************)
Null == [k |-> "null"]

Num(m, e) == [k |-> "num", m |-> m, e |-> e]

Str(words) == [k |-> "str", words |-> words]

Dict(m) == [k |-> "dict", m |-> m]

EmptyDict == Dict(<<>>)

\* d[key] = value
Assign(d, key, value) ==
    [x \in DOMAIN d \cup {key} |-> IF x = key THEN value ELSE d[x]]

\* dict.get(key, default) of a dict value
Get(d, key, default) == IF key \in DOMAIN d.m THEN d.m[key] ELSE default

RECURSIVE Norm(_)
Norm(x) ==
    IF x.e > 0 /\ x.m % 10 = 0 THEN Norm(Num(x.m \div 10, x.e - 1)) ELSE x

\* x * y
Times(x, y) == Norm(Num(x.m * y.m, x.e + y.e))

(***************************************************************************)
(* convert_openapi_to_ogc and process_shot (ogc_openapi_service.py,        *)
(* obs_open_golf_coach.py), and the first part of OGCBridge._process_shot. *)
(***************************************************************************)
\* The fields of BallData in the order the converter reads them, and the
\* key of the result each one is copied to.
FieldOrder ==
    <<"Speed", "VLA", "HLA", "TotalSpin", "SpinAxis", "BackSpin", "SideSpin">>

Fields == Range(FieldOrder)

CanonicalOf ==
    [Speed     |-> "ball_speed_meters_per_second",
     VLA       |-> "vertical_launch_angle_degrees",
     HLA       |-> "horizontal_launch_angle_degrees",
     TotalSpin |-> "total_spin_rpm",
     SpinAxis  |-> "spin_axis_degrees",
     BackSpin  |-> "backspin_rpm",
     SideSpin  |-> "sidespin_rpm"]

\* 0.44704
MPS_PER_MPH == Num(44704, 5)

\* A hint that is taken as metric when the message has none.
UnitsHintMetricDefault(msg) == Get(msg, "Units", Str({"Meters"}))

\* units = openapi_data.get("Units", "Yards")
UnitsHint(msg) == Get(msg, "Units", Str({"Yards"}))

\* is_imperial = "Yards" in units or "MPH" in units
IsImperial(units) == "Yards" \in units.words \/ "MPH" \in units.words

\* A lookup that gives zero for a field that is missing.
BallGetDefaultZero(ball, field) == Get(ball, field, Num(0, 0))

\* ball_data.get(field)
BallGet(ball, field) == Get(ball, field, Null)

\* The `if x is not None: ogc_input[...] = x` statements, in order.
RECURSIVE CopyFields(_, _, _, _)
CopyFields(ball, fs, out, imperial) ==
    IF fs = <<>> THEN out
    ELSE LET f == Head(fs)
             v == BallGet(ball, f)
         IN CopyFields(ball, Tail(fs),
                       IF v.k = "null" THEN out
                       ELSE Assign(out, CanonicalOf[f],
                                   IF f = "Speed" /\ imperial
                                   THEN Times(v, MPS_PER_MPH) ELSE v),
                       imperial)

\* convert_openapi_to_ogc.  `"Yards" in units` raises TypeError for a hint
\* that is not a string, ball_data.get raises AttributeError for a BallData
\* that is not a dict.
ConvertOpenAPIToOGC(msg) ==
    LET ball == Get(msg, "BallData", EmptyDict)
        units == UnitsHint(msg)
    IN IF units.k # "str" \/ ball.k # "dict"
       THEN [raised |-> TRUE, ret |-> <<>>]
       ELSE [raised |-> FALSE,
             ret |-> CopyFields(ball, FieldOrder, <<>>, IsImperial(units))]

\* A test that takes every dict as non-empty.
FalsyNever(keys) == FALSE

\* `not ogc_input` for a dict with these keys
Falsy(keys) == keys = {}

\* What a process_shot did: ret is "none" (None, for the reason why),
\* "msg" (its argument), "canonical" (the converter's result) or "enriched"
\* (the library's result); canonical is the converter's result if it ran.
ShotResult(raised, converted, called_ogc, ret, why, canonical) ==
    [raised |-> raised, converted |-> converted, called_ogc |-> called_ogc,
     ret |-> ret, why |-> why, canonical |-> canonical]

\* process_shot of the script; has_ogc is HAS_OGC, lib_ok whether
\* calculate_derived_values returns a result that json.loads accepts.
ProcessShotPlugin(msg, has_ogc, lib_ok) ==
    LET has_ball == "BallData" \in DOMAIN msg.m
        conv == IF has_ball THEN ConvertOpenAPIToOGC(msg)
                ELSE [raised |-> FALSE, ret |-> <<>>]
        input == IF has_ball THEN "canonical" ELSE "msg"
        keys == IF has_ball THEN DOMAIN conv.ret ELSE DOMAIN msg.m
    IN IF conv.raised
       THEN ShotResult(TRUE, TRUE, FALSE, "none", "raised", <<>>)
       ELSE IF ~has_ball /\ "open_golf_coach" \in DOMAIN msg.m
       THEN ShotResult(FALSE, FALSE, FALSE, "msg", "", <<>>)
       ELSE IF Falsy(keys)
       THEN ShotResult(FALSE, has_ball, FALSE, "none", "no_ball_data", conv.ret)
       ELSE IF has_ogc /\ lib_ok
       THEN ShotResult(FALSE, has_ball, TRUE, "enriched", "", conv.ret)
       ELSE ShotResult(FALSE, has_ball, has_ogc, input, "", conv.ret)

\* process_shot of the OpenAPI service.
ProcessShotOpenAPI(msg, lib_ok) ==
    LET conv == ConvertOpenAPIToOGC(msg) IN
    IF conv.raised
    THEN ShotResult(TRUE, TRUE, FALSE, "none", "raised", <<>>)
    ELSE IF Falsy(DOMAIN conv.ret)
    THEN ShotResult(FALSE, TRUE, FALSE, "none", "no_ball_data", conv.ret)
    ELSE IF lib_ok
    THEN ShotResult(FALSE, TRUE, TRUE, "enriched", "", conv.ret)
    ELSE ShotResult(FALSE, TRUE, TRUE, "none", "enrich_failed", conv.ret)

\* OGCBridge._process_shot up to `self.last_shot = enriched_data`; lib_ok is
\* whether OGCClient.process_shot returned a truthy result.
ProcessShotBridge(msg, lib_ok) ==
    IF "open_golf_coach" \in DOMAIN msg.m
    THEN ShotResult(FALSE, FALSE, FALSE, "msg", "", <<>>)
    ELSE IF lib_ok
    THEN ShotResult(FALSE, FALSE, TRUE, "enriched", "", <<>>)
    ELSE ShotResult(FALSE, FALSE, TRUE, "msg", "", <<>>)

\* The values a field of BallData takes in the messages of the model.
FieldValues(f) ==
    IF f = "Speed" THEN {Null, Num(0, 0), Num(2, 0)} ELSE {Null, Num(3, 0)}

BallDicts ==
    UNION {{Dict(d) : d \in {x \in [S -> {Null, Num(0, 0), Num(2, 0), Num(3, 0)}] :
                                \A f \in S : x[f] \in FieldValues(f)}} :
           S \in SUBSET Fields}

Absent == [k |-> "absent"]

\* A message with the given values at its keys, a key with Absent left out.
Message(opts) ==
    Dict([x \in {y \in DOMAIN opts : opts[y].k # "absent"} |-> opts[x]])

UnitsValues ==
    {Absent, Null, Str({"Yards"}), Str({"MPH"}), Str({"Meters"})}

\* The messages the converter is called with.
ConvertMsgs ==
    {Message([BallData |-> b, Units |-> u]) :
        b \in BallDicts \cup {Absent, Null, Num(3, 0)}, u \in UnitsValues}

\* The messages process_shot is called with: with or without the enrichment
\* sub-record, canonical fields of their own, and BallData.
ShotMsgs ==
    {Message([BallData |-> b, Units |-> u, open_golf_coach |-> o,
              ball_speed_meters_per_second |-> c]) :
        b \in {Absent, Null, EmptyDict, Dict([Speed |-> Null]),
               Dict([Speed |-> Num(2, 0)]), Dict([Speed |-> Num(0, 0)]),
               Dict([VLA |-> Num(3, 0), Club |-> Num(3, 0)]),
               Dict([Club |-> Num(3, 0)])},
        u \in UnitsValues,
        o \in {Absent, Dict([shot_name |-> Str({"Draw"})])},
        c \in {Absent, Num(3, 0)}}

(***************************************************************************)
(* get_nested_value (ogc_bridge.py, obs_open_golf_coach.py).  A path is    *)
(* the list of its segments, path.split('.').                              *)
(***************************************************************************)
\* A get_nested_value without the isinstance test: `key in value` raises
\* TypeError on a number and on None.
RECURSIVE GetNestedValueUnchecked(_, _)
GetNestedValueUnchecked(data, keys) ==
    IF keys = <<>> THEN [raised |-> FALSE, ret |-> data]
    ELSE IF data.k \in {"num", "null"} THEN [raised |-> TRUE, ret |-> Null]
    ELSE IF data.k = "dict" /\ Head(keys) \in DOMAIN data.m
    THEN GetNestedValueUnchecked(data.m[Head(keys)], Tail(keys))
    ELSE [raised |-> FALSE, ret |-> Null]

RECURSIVE GetNestedValue(_, _)
GetNestedValue(data, keys) ==
    IF keys = <<>> THEN [raised |-> FALSE, ret |-> data]
    ELSE IF data.k = "dict" /\ Head(keys) \in DOMAIN data.m
    THEN GetNestedValue(data.m[Head(keys)], Tail(keys))
    ELSE [raised |-> FALSE, ret |-> Null]

Segments == {"a", "b"}

Leaves == {Null, Num(1, 0), Str({"x"})}

DictsOf(values) ==
    {Dict(d) : d \in UNION {[S -> values] : S \in SUBSET Segments}}

\* The records get_nested_value is called with: scalars, and dicts of up to
\* two levels.
NestedData == Leaves \cup DictsOf(Leaves \cup DictsOf(Leaves))

\* The longest path, in segments.
MaxPath == 3

Paths == UNION {[1..n -> Segments] : n \in 1..MaxPath}

(***************************************************************************)
(* OGCClient.process_shot (ogc_bridge.py).  A scenario says what the       *)
(* library or the OGC server does; an exception is known by its class.     *)
(***************************************************************************)
\* The direct base class of an exception class.
BaseOf(cls) ==
    CASE cls \in {"socket.timeout", "ConnectionRefusedError"} -> "OSError"
      [] cls \in {"JSONDecodeError", "UnicodeDecodeError"} -> "ValueError"
      [] cls \in {"OSError", "ValueError", "TypeError", "RuntimeError"}
            -> "Exception"
      [] OTHER -> "BaseException"

RECURSIVE IsInstance(_, _)
IsInstance(exc, cls) ==
    \/ exc = cls
    \/ exc # "BaseException" /\ IsInstance(BaseOf(exc), cls)

Raise(exc) == [k |-> "raise", exc |-> exc, value |-> "none"]

Return(value) == [k |-> "return", exc |-> "", value |-> value]

\* try: body / except <handlers>: return None
TryExcept(body, handlers) ==
    IF body.k = "raise"
    THEN IF \E h \in handlers : IsInstance(body.exc, h)
         THEN [raised |-> FALSE, ret |-> "none"]
         ELSE [raised |-> TRUE, ret |-> "none"]
    ELSE [raised |-> FALSE, ret |-> body.value]

LocalScenarios ==
    {"lib_value_error", "lib_runtime_error", "lib_type_error",
     "result_not_json", "result_dict"}

\* The body of _process_local's try.
LocalBody(sc) ==
    CASE sc = "lib_value_error" -> Raise("ValueError")
      [] sc = "lib_runtime_error" -> Raise("RuntimeError")
      [] sc = "lib_type_error" -> Raise("TypeError")
      [] sc = "result_not_json" -> Raise("JSONDecodeError")
      [] OTHER -> Return("dict")

TcpScenarios ==
    {"connect_timeout", "connect_refused", "connect_oserror", "send_oserror",
     "recv_timeout", "recv_oserror", "reply_empty", "reply_bad_utf8",
     "reply_blank", "reply_not_json", "reply_json_null", "reply_json_dict"}

\* The body of _process_tcp's try: connect, sendall, the recv loop,
\* `if response:`, decode, strip, json.loads.
TcpBody(sc) ==
    CASE sc \in {"connect_timeout", "recv_timeout"} -> Raise("socket.timeout")
      [] sc = "connect_refused" -> Raise("ConnectionRefusedError")
      [] sc \in {"connect_oserror", "send_oserror", "recv_oserror"}
            -> Raise("OSError")
      [] sc = "reply_empty" -> Return("none")
      [] sc = "reply_bad_utf8" -> Raise("UnicodeDecodeError")
      [] sc \in {"reply_blank", "reply_not_json"} -> Raise("JSONDecodeError")
      [] sc = "reply_json_null" -> Return("none")
      [] OTHER -> Return("dict")

\* except clauses that leave out the final `except Exception`.
TcpHandlersNarrow == {"socket.timeout", "ConnectionRefusedError"}

\* The except clauses of _process_tcp.
TcpHandlers == {"socket.timeout", "ConnectionRefusedError", "Exception"}

\* OGCClient.process_shot
OGCClientProcessShot(has_ogc, sc) ==
    IF has_ogc THEN TryExcept(LocalBody(sc), {"Exception"})
    ELSE TryExcept(TcpBody(sc), TcpHandlers)

\* The receive loop of _process_tcp.  reply is what the server still sends
\* before it closes; recv(4096) returns at most n bytes of it, b"" after the
\* close.  The loop ends once the response holds a newline.
RECURSIVE RecvResponse(_, _, _)
RecvResponse(reply, response, n) ==
    IF reply = <<>> THEN response
    ELSE LET k == IF n < Len(reply) THEN n ELSE Len(reply)
             r == response \o SubSeq(reply, 1, k)
         IN IF FirstNL(r, 1) # 0 THEN r
            ELSE RecvResponse(SubSeq(reply, k + 1, Len(reply)), r, n)

\* _process_tcp once the request is sent: json.loads of the whole response,
\* decoded and stripped; None for an empty response and from the except
\* clauses (UnicodeDecodeError, JSONDecodeError).
ProcessTcpReply(reply, n) ==
    LET response == RecvResponse(reply, <<>>, n)
        decoded == Utf8Decode(response)
        text == Strip(decoded.text)
    IN IF response # <<>> /\ decoded.ok /\ JsonOk(text)
       THEN [none |-> FALSE, value |-> JsonLoads(text), response |-> response]
       ELSE [none |-> TRUE, value |-> <<>>, response |-> response]

(***************************************************************************)
(* One call of one of the functions.                                       *)
(***************************************************************************)
FnInit ==
    /\ AuxIdle
    /\ FrIdle
    /\ BrIdle
    /\ HsIdle
    /\ SrcIdle

FnFrame == UNCHANGED <<fr_vars, br_vars, hs_vars, src_vars, th_vars>>

CallConvert ==
    /\ call.fn = "none"
    /\ \E msg \in ConvertMsgs :
          \E r \in {ConvertOpenAPIToOGC(msg)} :
             call' = [fn |-> "convert_openapi_to_ogc", msg |-> msg,
                      raised |-> r.raised, ret |-> r.ret]
    /\ FnFrame

CallProcessShot ==
    /\ call.fn = "none"
    /\ \E msg \in ShotMsgs, has_ogc \in BOOLEAN, lib_ok \in BOOLEAN,
          v \in {"plugin", "openapi", "bridge"} :
          /\ v # "plugin" => has_ogc
          /\ ~has_ogc => ~lib_ok
          /\ call' = [fn |-> "process_shot", variant |-> v, msg |-> msg,
                      has_ogc |-> has_ogc, lib_ok |-> lib_ok,
                      res |-> CASE v = "plugin" ->
                                     ProcessShotPlugin(msg, has_ogc, lib_ok)
                                [] v = "openapi" ->
                                     ProcessShotOpenAPI(msg, lib_ok)
                                [] OTHER -> ProcessShotBridge(msg, lib_ok)]
    /\ FnFrame

CallGetNestedValue ==
    /\ call.fn = "none"
    /\ \E data \in NestedData, path \in Paths :
          \E r \in {GetNestedValue(data, path)} :
             call' = [fn |-> "get_nested_value", data |-> data,
                      path |-> path, raised |-> r.raised, ret |-> r.ret]
    /\ FnFrame

CallFormatDataPoint ==
    /\ call.fn = "none"
    /\ \E key \in Range(EnabledKeys), shot \in [CatalogKeys -> ValueKinds],
          sh \in [label : BOOLEAN, unit : BOOLEAN] :
          call' = [fn |-> "format_data_point", key |-> key, shot |-> shot,
                   show |-> sh, ret |-> FormatDataPoint(key, shot, sh)]
    /\ FnFrame

CallOGCClient ==
    /\ call.fn = "none"
    /\ \E has_ogc \in BOOLEAN :
          \E sc \in (IF has_ogc THEN LocalScenarios ELSE TcpScenarios) :
             \E r \in {OGCClientProcessShot(has_ogc, sc)} :
                call' = [fn |-> "OGCClient.process_shot", has_ogc |-> has_ogc,
                         scenario |-> sc, raised |-> r.raised, ret |-> r.ret]
    /\ FnFrame

\* _process_tcp against a server that replies with one message, with two,
\* with a message it does not terminate, with a line that is not JSON, or
\* with nothing.
CallProcessTcp ==
    /\ call.fn = "none"
    /\ \E reply \in {ObjX \o NL, StreamXY, ObjX, Junk \o NL, <<>>},
          n \in 1..Len(StreamXY) :
          \E r \in {ProcessTcpReply(reply, n)} :
             call' = [fn |-> "_process_tcp", reply |-> reply, n |-> n,
                      response |-> r.response, none |-> r.none,
                      ret |-> r.value]
    /\ FnFrame

FnNext ==
    \/ CallProcessTcp
    \/ CallConvert
    \/ CallProcessShot
    \/ CallGetNestedValue
    \/ CallFormatDataPoint
    \/ CallOGCClient

SpecFunctions == FnInit /\ [][FnNext]_vars

(***************************************************************************)
(* Claims about framing (SpecFraming)                                      *)
(***************************************************************************)
FrPrefix(s, t) == Len(s) <= Len(t) /\ s = SubSeq(t, 1, Len(s))

\* C3: when the bytes of {"x":1} newline {"y":2} newline arrive as any
\* sequence of non-empty chunks, each of the three ingest decoders emits
\* exactly two messages, the first object then the second: at no time has it
\* emitted anything but a prefix of the two, and once the last byte has been
\* received it has emitted both.
C3_FramingChunkIndependent ==
    fr_stream = StreamXY =>
        /\ FrPrefix(fr_out, <<ObjX, ObjY>>)
        /\ fr_pos = Len(fr_stream) => fr_out = <<ObjX, ObjY>>

\* The whole-buffer decoder of the OpenAPI service has received the two
\* objects in at least four chunks and emitted both.
C3_Witness ==
    /\ fr_stream = StreamXY /\ fr_dec = "openapi"
    /\ fr_pos = Len(fr_stream) /\ fr_chunks >= 4
    /\ fr_out = <<ObjX, ObjY>>

\* C4: a newline-terminated line that is not valid JSON is discarded and every
\* later valid newline-terminated message of the connection is still decoded:
\* once the whole stream has been received, the decoder has emitted exactly
\* the valid lines of the stream, and the connection is still open unless
\* the peer closed it.
C4_FramingErrorLocal ==
    fr_pos = Len(fr_stream) => fr_out = ValidLines(fr_stream)

(***************************************************************************)
(* Claims about the bridge and the service (SpecBridge)                    *)
(***************************************************************************)
\* Every item that was put on the queue, in the order the main loop took
\* them, followed by those still queued.
Enqueued ==
    [i \in 1..Len(dispatched) |->
        [conn |-> dispatched[i].conn, seq |-> dispatched[i].seq,
         kind |-> dispatched[i].kind, ticket |-> dispatched[i].ticket]]
    \o data_queue

\* C1: every message a handler decoded as valid JSON is enqueued exactly
\* once (each put is still queued or was dequeued, and none appears twice),
\* dequeued at most once, and every dequeued message was handed to
\* _process_shot.
C1_ExactlyOnce ==
    /\ Len(Enqueued) = ticket
    /\ \A i, j \in 1..Len(Enqueued) :
          i # j => Enqueued[i].ticket # Enqueued[j].ticket
    /\ \A i \in 1..Len(dispatched) : dispatched[i].handed

\* C2: the main loop takes the items in the order they were put on the
\* queue, and two messages of one connection are put on the queue, and so
\* pushed to the sink, in the order the connection received them.
C2_PerConnectionFifo ==
    \A i, j \in 1..Len(Enqueued) :
        i < j =>
            /\ Enqueued[i].ticket < Enqueued[j].ticket
            /\ Enqueued[i].conn = Enqueued[j].conn
                  => Enqueued[i].seq < Enqueued[j].seq

\* Two messages of one connection have both been pushed to the sink.
C2_Witness ==
    /\ Len(dispatched) = 2
    /\ dispatched[1].conn = dispatched[2].conn
    /\ dispatched[1].seq = 1 /\ dispatched[2].seq = 2
    /\ dispatched[1].pushed /\ dispatched[2].pushed

\* C8: a message that is valid JSON never ends the dispatch loop, whatever
\* its shape: no exception leaves the processing of a dequeued item.
C8_GracefulDegradation ==
    /\ main_pc # "crashed"
    /\ \A i \in 1..Len(dispatched) : ~dispatched[i].raised

\* C10: a connection whose handler has ended is Closed with its socket
\* closed, whatever ended the handler, and only a connection that is
\* Streaming has an open socket; and no step that ends a connection changes
\* the listener: an accept loop that was accepting is still accepting.
C10_ConnectionLifecycle ==
    /\ [](\A c \in Conns :
             /\ conn[c].state = "Closed" => conn[c].socket = "closed"
             /\ conn[c].socket = "open" => conn[c].state = "Streaming")
    /\ [][(\E c \in Conns : conn[c].state = "Streaming"
                              /\ conn'[c].state = "Closed")
             => listener' = listener]_vars

\* One connection ended by a read error, and another one was accepted after
\* that and is streaming.
C10_Witness ==
    /\ conn["c1"].state = "Closed" /\ conn["c1"].socket = "closed"
    /\ conn["c1"].reason = "error"
    /\ conn["c2"].state = "Streaming"
    /\ accepted_late
    /\ listener = [running |-> TRUE, thread |-> "accepting"]

(***************************************************************************)
(* Claims about a sink that is or becomes unreachable (SpecBridgeFair,     *)
(* SpecSink)                                                               *)
(***************************************************************************)
\* C6: while the sink stays unreachable and the process is not stopped, the
\* listener is eventually started, in the bridge and in the service alike.
C6_IngestionWithoutSink ==
    (~sink_up) ~> (listener.running \/ ~running)

\* C7: a shot that the main loop processes while the sink is reachable is
\* delivered to the sink, also when the sink was unreachable before (at
\* startup or after a failure during operation).
C7_RecoveryAfterOutage ==
    \A i \in 1..Len(dispatched) :
        (dispatched[i].handed /\ dispatched[i].sink_up)
            => dispatched[i].delivered

(***************************************************************************)
(* Claims about the handshake variants (SpecHandshake)                     *)
(***************************************************************************)
\* C5: whenever the enrichment call for a decoded shot fails, the
\* un-enriched input of that shot is still forwarded downstream (put on the
\* script's queue, or sent with OBSClient.send).
C5_EnrichmentFailureForwardsRaw ==
    \A i \in 1..Len(processed) :
        processed[i].enrich_failed => processed[i].forwarded

\* C9: on every accepted connection the handler sends the handshake (code
\* 201, game id OpenGolfCoach, newline-terminated) exactly once and before
\* it reads any byte: a connection that is still Accepted has sent and read
\* nothing, a connection that is Streaming or has read has sent exactly the
\* handshake, and nothing else is ever sent to the device.  When the send
\* fails the connection is Closed with its socket closed, and nothing was
\* read from it or processed for it.
C9_HandshakeOrdering ==
    \A c \in Conns :
        /\ to_device[c] \in {<<>>, <<HandshakeMessage>>}
        /\ conn[c].state = "Accepted" => to_device[c] = <<>> /\ ~has_read[c]
        /\ (conn[c].state = "Streaming" \/ has_read[c])
              => to_device[c] = <<HandshakeMessage>>
        /\ hs_failed[c] =>
              /\ conn[c].state = "Closed" /\ conn[c].socket = "closed"
              /\ to_device[c] = <<>> /\ ~has_read[c]
              /\ \A i \in 1..Len(processed) : processed[i].conn # c

\* Two shots were processed and forwarded on one connection after its
\* handshake and the connection is still open, while the handshake of the
\* other connection failed.
C9_Witness ==
    /\ conn["c1"].state = "Streaming"
    /\ to_device["c1"] = <<HandshakeMessage>>
    /\ Len(processed) = 2
    /\ \A i \in 1..2 : processed[i].conn = "c1" /\ processed[i].forwarded
    /\ hs_failed["c2"]

(***************************************************************************)
(* Claims about OBSManager (SpecSources)                                   *)
(***************************************************************************)
\* The last two calls were create_text_source for the same key; connect and
\* disconnect are calls, so none lies between them.
CreatedTwice ==
    /\ last_op.op = "create" /\ prev_op.op = "create"
    /\ prev_op.key = last_op.key

OkCalls(calls) == SelectSeq(calls, LAMBDA c : c.ok)

\* C11: two calls of create_text_source for one key, whatever the first one
\* returned and with no disconnect in between, issue at most one
\* create_input request in total.
C11_AtMostOneCreateCall ==
    CreatedTwice =>
        Len(prev_op.creates) + Len(CreateCalls(last_op.calls)) <= 1

\* C11, amended: when the first of two such calls returned true, the second
\* makes no request at all and returns true; and of the create_input
\* requests of the two calls at most one returned without error.
C11_IdempotentAfterSuccess ==
    CreatedTwice =>
        /\ prev_op.ret => (last_op.ret /\ last_op.calls = <<>>)
        /\ Len(OkCalls(prev_op.creates))
              + Len(OkCalls(CreateCalls(last_op.calls))) <= 1

\* The first call created the input with one create_input request, and the
\* second call for the same key returned true without any request.
C11_Witness ==
    /\ CreatedTwice
    /\ prev_op.ret /\ Len(OkCalls(prev_op.creates)) = 1
    /\ last_op.ret /\ last_op.calls = <<>>

\* The direct set_input_settings request of an update_text_source failed.
DirectFailed(r) ==
    /\ r.calls # <<>>
    /\ r.calls[1].op = "set_input_settings" /\ ~r.calls[1].ok

\* The names a request confirmed to exist or created without error.
Confirmed(calls) ==
    {calls[i].name : i \in {j \in DOMAIN calls :
        calls[j].ok /\ calls[j].op \in {"get_input_settings", "create_input"}}}

\* C12: when the direct update of update_text_source fails, the manager
\* attempts create-if-missing and returns true exactly when that step
\* succeeds, which for a key already in the cache is always.
C12_UpdateFallback ==
    (last_op.op = "update" /\ DirectFailed(last_op)) =>
        last_op.ret =
            (\/ SourceName(last_op.key) \in last_op.cache_before
             \/ SourceName(last_op.key) \in Confirmed(last_op.calls))

\* C13: when an input whose name is in the cache was removed in OBS, the
\* next update for its key (over a live connection) fails its direct update
\* and recreates the input: after it the input exists and its name is in
\* the cache.
C13_RecreatedAfterRemoval ==
    (/\ last_op.op = "update" /\ last_op.connected /\ last_op.live
     /\ SourceName(last_op.key) \in last_op.cache_before
     /\ SourceName(last_op.key) \notin last_op.inputs_before)
    => /\ DirectFailed(last_op)
       /\ SourceName(last_op.key) \in last_op.inputs_after
       /\ SourceName(last_op.key) \in created_sources

\* C14: no step removes a name from created_sources, and a step adds a name
\* only when, in that step, OBS confirmed that the input exists or a
\* create_input request for it returned without error.
C14_CacheMonotonicSound ==
    [][/\ created_sources \subseteq created_sources'
       /\ \A n \in created_sources' \ created_sources :
             n \in Confirmed(last_op'.calls)]_vars

\* Both names are in the cache after a disconnect, one of them for an input
\* that no longer exists in OBS.
C14_Witness ==
    /\ last_op.op = "disconnect"
    /\ created_sources = {SourceName(k) : k \in CatalogKeys}
    /\ sink_inputs # created_sources

\* The metric of an enabled key resolves in the shot.
Resolves(key, shot) == key \in CatalogKeys /\ shot[key] # "absent"

\* C15: update_all_sources calls update_text_source exactly once for each
\* enabled key whose value resolves in the shot, in the order of the enabled
\* keys, and for no other key.
C15_UpdateAllResolvable ==
    last_op.op = "update_all" =>
        last_op.updated =
            SelectSeq(EnabledKeys, LAMBDA k : Resolves(k, last_op.shot))

(***************************************************************************)
(* Claims about the reconnect loops (SpecSink)                             *)
(***************************************************************************)

\* C16: the bridge makes its first connect attempt and at most RetryLimit
\* retries; while it still retries the failures are within the limit; once
\* all of them have failed it has left the retry loop, the listener was
\* started, the manager stays unconnected with no source created, and every
\* shot it dispatches afterwards is processed without a sink call.
C16_BoundedReconnect ==
    variant = "bridge" =>
        /\ retry_count <= RetryLimit + 1
        /\ main_pc \in {"connect", "sleep"} => retry_count <= RetryLimit
        /\ retry_count > RetryLimit =>
              /\ main_pc = "loop" => listener.running
              /\ ~obs.connected
              /\ obs.sources = "none"
              /\ \A i \in 1..Len(dispatched) : ~dispatched[i].pushed

\* The bridge gave up, the sink came back, and a shot was dispatched without
\* a sink call.
C16_Witness ==
    /\ variant = "bridge"
    /\ retry_count = RetryLimit + 1
    /\ main_pc = "loop"
    /\ listener.running
    /\ Len(dispatched) >= 1
    /\ dispatched[1].handed
    /\ dispatched[1].sink_up
    /\ ~dispatched[1].pushed

\* The service is somewhere behind its retry loop without having been
\* stopped in it.
ServiceStarted ==
    \/ main_pc \in {"loop", "crashed"}
    \/ listener.thread # "none"
    \/ dispatched # <<>>

\* C17: the service leaves its retry loop only by a successful connect or
\* by being stopped; in the first case the sources are created before the
\* data server starts, in the second no source is created and the data
\* server is never started.
C17_UnboundedReconnect ==
    /\ [](variant = "service" =>
            /\ retry_count = 0
            /\ ServiceStarted => obs.sources = "created"
            /\ obs.sources = "none" /\ main_pc = "stopped" =>
                  /\ ~listener.running
                  /\ listener.thread = "none"
                  /\ dispatched = <<>>)
    /\ [][variant = "service" /\ main_pc \in {"connect", "sleep"}
            /\ main_pc' \notin {"connect", "sleep"} =>
              \/ main_pc' = "loop" /\ sink_up /\ obs'.client = "live"
                   /\ obs'.sources = "created"
              \/ main_pc' = "stopped" /\ ~running'
                   /\ obs'.sources = "none"]_vars

\* The service was stopped after a failed connect attempt, with the sink
\* reachable again, and nothing was started.
C17_Witness ==
    /\ variant = "service"
    /\ main_pc = "stopped"
    /\ obs.tried
    /\ obs.sources = "none"
    /\ sink_up
    /\ listener.thread = "none"

(***************************************************************************)
(* Claims about shutdown (SpecShutdownFair)                                *)
(***************************************************************************)

\* C18: once stop() has run, the accept loop has ended, the sink connection
\* is released, the dispatch loop is over, and every per-connection read
\* loop eventually ends, without the device sending or closing.
C18_CooperativeShutdown ==
    (main_pc = "stopped") ~>
        /\ ~running
        /\ listener.thread # "accepting"
        /\ ~obs.connected /\ obs.client = "none"
        /\ \A c \in Conns : conn[c].state # "Streaming"

(***************************************************************************)
(* Claims about capacities (SpecBridge, SpecFraming)                       *)
(***************************************************************************)

\* A capacity the shared queue could be configured with: one less than the
\* number of messages the devices of the model can send.
QueueCapacity == MaxMsgs - 1

\* C19: the shared queue never holds more than its capacity (a put on a
\* full queue drops the new item instead).
C19_QueueBounded == Len(data_queue) <= QueueCapacity

\* A backlog maximum, in bytes: one less than the length of one message of
\* the model's streams.
MaxBacklog == Len(ObjX) - 1

\* C20: a connection's decode buffer never holds more than the maximum:
\* a connection whose unterminated message exceeds it has been closed.
C20_BacklogCapped == fr_open => Len(fr_buffer) <= MaxBacklog

(***************************************************************************)
(* Claims about threads (SpecThreads)                                      *)
(***************************************************************************)

\* C21: at no time are two threads inside a call of the sink client, and a
\* thread that is inside one is the main thread, never the worker of a
\* connection.
C21_SinkSingleThreaded ==
    /\ Cardinality(in_sink) <= 1
    /\ in_sink \subseteq {"main"}

(***************************************************************************)
(* Claims about a listen port that cannot be bound (SpecShutdownFair)      *)
(***************************************************************************)

\* C22: when binding the listening socket has failed, start-up is aborted:
\* the program does not stay running.
C22_BindFailureFatal == (listener.thread = "failed") ~> ~running

(***************************************************************************)
(* Claims about the functions on messages (SpecFunctions)                  *)
(***************************************************************************)
IsShotCall(variants) ==
    call.fn = "process_shot" /\ call.variant \in variants

\* The hint of a message is a string or missing, and its BallData a record
\* or missing: the converter does not raise.
WellTyped(msg) ==
    /\ "Units" \in DOMAIN msg.m => msg.m["Units"].k = "str"
    /\ "BallData" \in DOMAIN msg.m => msg.m["BallData"].k = "dict"

\* The fields of the seven that a BallData record holds with a value.
Measured(ball) ==
    {f \in Fields : f \in DOMAIN ball.m /\ ball.m[f].k # "null"}

BallOf(msg) == Get(msg, "BallData", EmptyDict)

\* C23: a message that carries the enrichment sub-record is returned as it
\* is by every variant's shot processing, without conversion and without an
\* enrichment call, whatever other keys it has.
C23_PassThrough ==
    (/\ IsShotCall({"plugin", "openapi", "bridge"})
     /\ WellTyped(call.msg)
     /\ "open_golf_coach" \in DOMAIN call.msg.m) =>
        /\ ~call.res.raised
        /\ call.res.ret = "msg"
        /\ ~call.res.converted
        /\ ~call.res.called_ogc

\* C24, as stated: whenever a message has a BallData record, whatever its
\* fields, process_shot has a canonical input for it and does not drop it
\* for want of ball data.
C24_DroppedOnlyWithoutBallData ==
    (/\ IsShotCall({"plugin", "openapi"})
     /\ WellTyped(call.msg)
     /\ "BallData" \in DOMAIN call.msg.m) =>
        /\ call.res.why # "no_ball_data"
        /\ call.res.ret # "none" \/ call.res.why = "enrich_failed"

\* C24, amended: for a message with a BallData record, process_shot drops
\* the shot for want of ball data exactly when the record holds none of the
\* seven fields with a value; otherwise it has converted the message to a
\* canonical input with exactly the fields that have one.
C24_DroppedWithoutMeasuredField ==
    (/\ IsShotCall({"plugin", "openapi"})
     /\ WellTyped(call.msg)
     /\ "BallData" \in DOMAIN call.msg.m) =>
        LET measured == Measured(BallOf(call.msg)) IN
        /\ ~call.res.raised
        /\ call.res.converted
        /\ (call.res.why = "no_ball_data") <=> (measured = {})
        /\ (call.res.ret = "none" /\ call.res.why # "enrich_failed")
              <=> (measured = {})
        /\ DOMAIN call.res.canonical = {CanonicalOf[f] : f \in measured}

\* A BallData record with a field that is null and nothing else was dropped
\* by the OpenAPI service.
C24_Witness ==
    /\ IsShotCall({"openapi"})
    /\ WellTyped(call.msg)
    /\ "BallData" \in DOMAIN call.msg.m
    /\ DOMAIN BallOf(call.msg).m = {"Speed"}
    /\ call.res.ret = "none"
    /\ call.res.why = "no_ball_data"

\* C25: the converter's result has a canonical field exactly for the fields
\* of BallData that are present and not null; angles and spins are copied
\* unchanged and the speed is the measured speed, scaled or not; so no field
\* is defaulted and no other key appears.  The converter returns whenever
\* the message is well typed.
C25_ConvertOmitsUnmeasured ==
    call.fn = "convert_openapi_to_ogc" =>
        LET ball == BallOf(call.msg)
        IN /\ call.raised <=> ~WellTyped(call.msg)
           /\ ~call.raised =>
                /\ DOMAIN call.ret = {CanonicalOf[f] : f \in Measured(ball)}
                /\ \A f \in Measured(ball) \ {"Speed"} :
                      call.ret[CanonicalOf[f]] = ball.m[f]
                /\ "Speed" \in Measured(ball) =>
                      call.ret[CanonicalOf["Speed"]] \in
                         {ball.m["Speed"], Times(ball.m["Speed"], MPS_PER_MPH)}

\* A BallData with a speed of zero, a null angle, a spin and no other field:
\* the result has the speed and the spin only.
C25_Witness ==
    /\ call.fn = "convert_openapi_to_ogc"
    /\ ~call.raised
    /\ "BallData" \in DOMAIN call.msg.m
    /\ DOMAIN BallOf(call.msg).m = {"Speed", "VLA", "TotalSpin"}
    /\ BallOf(call.msg).m["Speed"] = Num(0, 0)
    /\ DOMAIN call.ret = {"ball_speed_meters_per_second", "total_spin_rpm"}

SpeedOf(msg) == BallOf(msg).m["Speed"]

ConvertedSpeed ==
    /\ call.fn = "convert_openapi_to_ogc"
    /\ ~call.raised
    /\ "Speed" \in Measured(BallOf(call.msg))

\* C26, as stated: the speed is scaled by 0.44704 exactly when the message
\* has a units hint that indicates imperial units, and copied unchanged in
\* every other case, a message without a hint included.
C26_ScaledOnlyOnImperialHint ==
    ConvertedSpeed =>
        call.ret[CanonicalOf["Speed"]] =
            (IF "Units" \in DOMAIN call.msg.m /\ IsImperial(call.msg.m["Units"])
             THEN Times(SpeedOf(call.msg), MPS_PER_MPH)
             ELSE SpeedOf(call.msg))

\* C26, amended: the speed is scaled by 0.44704 when the hint contains
\* "Yards" or "MPH" and also when the message has no hint; it is copied
\* unchanged exactly when the message has a hint that contains neither.
C26_ScaledUnlessMetricHint ==
    ConvertedSpeed =>
        call.ret[CanonicalOf["Speed"]] =
            (IF "Units" \notin DOMAIN call.msg.m
                \/ IsImperial(call.msg.m["Units"])
             THEN Times(SpeedOf(call.msg), MPS_PER_MPH)
             ELSE SpeedOf(call.msg))

\* A speed of 2 in a message without a hint came out as 0.89408.
C26_Witness ==
    /\ ConvertedSpeed
    /\ "Units" \notin DOMAIN call.msg.m
    /\ SpeedOf(call.msg) = Num(2, 0)
    /\ call.ret[CanonicalOf["Speed"]] = Num(89408, 5)

\* The node of data reached by the first i segments of path, Absent if a
\* segment is missing or a node on the way is not a keyed record.
RECURSIVE NodeAt(_, _, _)
NodeAt(data, path, i) ==
    IF i = 0 THEN data
    ELSE LET n == NodeAt(data, path, i - 1) IN
         IF n.k = "dict" /\ path[i] \in DOMAIN n.m THEN n.m[path[i]]
         ELSE Absent

\* C28: get_nested_value never raises; it returns the value stored at the
\* path when every segment exists and every node on the way is a keyed
\* record, and None otherwise.
C28_NestedValue ==
    call.fn = "get_nested_value" =>
        LET n == NodeAt(call.data, call.path, Len(call.path)) IN
        /\ ~call.raised
        /\ n.k = "absent" => call.ret.k = "null"
        /\ n.k # "absent" => call.ret = n

\* A number was found two levels down.
C28_Witness ==
    /\ call.fn = "get_nested_value"
    /\ Len(call.path) = 2
    /\ call.data.k = "dict"
    /\ call.ret = Num(1, 0)

\* C29: format_data_point returns None exactly when the key is not in the
\* catalog or the value does not resolve; otherwise its text is the label
\* and a colon (if show_label), the formatted value, and the unit (if
\* show_unit and the entry has one), with one space between them.
C29_FormatDataPoint ==
    call.fn = "format_data_point" =>
        LET resolves == call.key \in CatalogKeys /\ call.shot[call.key] # "absent"
        IN /\ call.ret.none <=> ~resolves
           /\ resolves =>
                LET e == DATA_POINTS[call.key]
                    v == FormattedValue(call.shot[call.key])
                IN call.ret.text =
                      (IF call.show.label THEN e.label \o <<":", " ">> ELSE <<>>)
                      \o v
                      \o (IF call.show.unit /\ e.unit # <<>>
                          THEN <<" ">> \o e.unit ELSE <<>>)

\* A shot name shown with label and unit switched on: "Shot Shape: Draw".
C29_Witness ==
    /\ call.fn = "format_data_point"
    /\ call.key = "shot_name"
    /\ call.show = [label |-> TRUE, unit |-> TRUE]
    /\ call.shot["shot_name"] = "text"
    /\ call.ret.text = DATA_POINTS["shot_name"].label
                          \o <<":", " ", "D", "r", "a", "w">>

\* C30: OGCClient.process_shot never raises, and returns None on a timeout,
\* a refused connection, a socket error, an empty reply, a reply that cannot
\* be decoded, and on any exception of the library.
C30_EnrichmentNeverRaises ==
    call.fn = "OGCClient.process_shot" =>
        /\ ~call.raised
        /\ call.scenario \notin {"result_dict", "reply_json_dict"} =>
              call.ret = "none"

\* The server's reply was not JSON and the call returned None.
C30_Witness ==
    /\ call.fn = "OGCClient.process_shot"
    /\ ~call.has_ogc
    /\ call.scenario = "reply_not_json"
    /\ ~call.raised
    /\ call.ret = "none"

(***************************************************************************)
(* Claims about the two framing conventions (SpecFraming)                  *)
(***************************************************************************)

\* C27: when a newline-terminated message is followed on the same
\* connection by a complete message without a trailing newline, every
\* ingest decoder has emitted both once the last byte has been received.
C27_BothFramings ==
    (fr_stream = StreamXYNoNL /\ fr_pos = Len(fr_stream)) =>
        fr_out = <<ObjX, ObjY>>

(***************************************************************************)
(* Claims about partial messages (SpecFraming)                             *)
(***************************************************************************)

\* C31: for a stream of newline-terminated JSON objects, cut into chunks in
\* any way, the decoder of the OpenAPI service never has emitted anything but
\* a prefix of what the newline-delimited decoder makes of the whole stream,
\* and has emitted all of it once the last byte has been received.
C31_PartialKeptUnmodified ==
    (fr_dec = "openapi" /\ fr_stream \in {StreamXY, StreamSpaced}) =>
        /\ FrPrefix(fr_out, ValidLines(fr_stream))
        /\ fr_pos = Len(fr_stream) => fr_out = ValidLines(fr_stream)

\* The message with the two-byte character, as json.loads returns it.
AccentMessage == <<"{", "\"", "x", "\"", ":", "\"", "e-acute", "\"", "}">>

\* C32: a chunk boundary inside a two-byte character does not close the
\* connection, and the message is emitted once its last byte has been
\* received; and the plugin's handler, given a line that is not valid UTF-8
\* followed by a valid message, has emitted that message once the last byte
\* has been received.
C32_MultiByteTolerated ==
    /\ fr_stream = StreamAccent =>
          /\ fr_open \/ fr_pos = Len(fr_stream)
          /\ fr_pos = Len(fr_stream) => fr_out = <<AccentMessage>>
    /\ (fr_dec = "plugin" /\ fr_stream = StreamBadUtf8Y
          /\ fr_pos = Len(fr_stream)) => fr_out = <<ObjY>>

(***************************************************************************)
(* Claims about concurrent connections (SpecBridge)                        *)
(***************************************************************************)

\* The messages of connection c that were put on the queue, in order.
DecodedOf(c, items) ==
    LET own == SelectSeq(items, LAMBDA it : it.conn = c)
    IN [i \in 1..Len(own) |-> [seq |-> own[i].seq, kind |-> own[i].kind]]

\* C33: a connection's decode buffer holds bytes of that connection only.
\* A step in which no handler takes bytes from its socket changes no buffer
\* and nothing of what was decoded (at most the main loop takes the head of
\* the queue); in any other step the buffer of a connection and the
\* messages decoded on it change only when its own handler receives bytes,
\* and then by exactly what its own buffer and these bytes give, whatever
\* the other connection holds, sends or suffers.
C33_ConnectionsIndependent ==
    /\ [](\A c \in Conns : \A i \in 1..Len(buffers[c]) :
             buffers[c][i].conn = c)
    /\ [][IF \A c \in Conns : Len(wire'[c]) >= Len(wire[c])
          THEN /\ buffers' = buffers
               /\ \/ data_queue' = data_queue /\ dispatched' = dispatched
                  \/ /\ data_queue # <<>> /\ data_queue' = Tail(data_queue)
                     /\ Len(dispatched') = Len(dispatched) + 1
                     /\ SubSeq(dispatched', 1, Len(dispatched)) = dispatched
                     /\ LET d == dispatched'[Len(dispatched')]
                        IN [conn |-> d.conn, seq |-> d.seq, kind |-> d.kind,
                            ticket |-> d.ticket] = Head(data_queue)
          ELSE /\ dispatched' = dispatched
               /\ \A c \in Conns :
                  IF /\ Len(wire'[c]) < Len(wire[c])
                     /\ "reason" \in DOMAIN conn'[c]
                           => conn'[c].reason # "error"
                  THEN LET got == SubSeq(wire[c], 1,
                                         Len(wire[c]) - Len(wire'[c]))
                           h == HandleLines(buffers[c] \o got, <<>>, 0)
                       IN /\ buffers'[c] = h.buffer
                          /\ DecodedOf(c, data_queue') =
                                DecodedOf(c, data_queue)
                                \o DecodedOf(c, h.queue)
                  ELSE /\ buffers'[c] = buffers[c]
                       /\ DecodedOf(c, data_queue') =
                             DecodedOf(c, data_queue)]_vars

\* The first connection holds an incomplete message in its buffer while a
\* message of the second connection has been decoded and queued.
C33_Witness ==
    /\ buffers["c1"] # <<>>
    /\ data_queue # <<>> /\ data_queue[1].conn = "c2"

(***************************************************************************)
(* Claims about the reply of the enrichment server (SpecFunctions)         *)
(***************************************************************************)

\* C34: when the reply of the server starts with a newline-terminated line
\* that is valid JSON, _process_tcp returns that message, whether or not the
\* read that delivered the newline delivered further bytes behind it.
C34_FirstReplyMessage ==
    (/\ call.fn = "_process_tcp"
     /\ FirstNL(call.reply, 1) # 0
     /\ JsonOk(Strip(SplitLine(call.reply)))) =>
        /\ ~call.none
        /\ call.ret = JsonLoads(Strip(SplitLine(call.reply)))

(***************************************************************************)
(* Claims about a restart of the script's server (SpecRestart)             *)
(***************************************************************************)

\* C35: a handler that was accepted before the server was stopped and
\* started again puts nothing on the queue after the restart.
C35_StopEndsGeneration ==
    [][\A i \in 1..Len(data_queue') :
          data_queue'[i].ticket > ticket
             => "stale" \notin DOMAIN conn[data_queue'[i].conn]]_vars

(***************************************************************************)
(* Claims about the two decode paths of the OpenAPI service                *)
(* (SpecHandshake)                                                         *)
(***************************************************************************)

\* C36: in the OpenAPI service every decoded message whose enrichment
\* succeeded was passed to OBSClient.send, no exception ended its handler,
\* and no message was passed twice, on whichever path it was decoded and
\* whatever the enrichment result holds.
C36_SentOnBothPaths ==
    variant = "openapi" =>
        /\ \A i \in 1..Len(processed) :
              (processed[i].called_ogc /\ ~processed[i].enrich_failed)
                 => processed[i].forwarded /\ ~processed[i].raised
        /\ \A i, j \in 1..Len(processed) :
              (i # j /\ processed[i].conn = processed[j].conn
                     /\ processed[i].seq = processed[j].seq)
                 => ~(processed[i].forwarded /\ processed[j].forwarded)

(***************************************************************************)
(* Claims about the unconnected manager and partial shots (SpecSources)    *)
(***************************************************************************)

\* C38: while the OBSManager is not connected, create_text_source,
\* update_text_source and source_exists return false, make no request to
\* OBS and leave created_sources (and the inputs of OBS) as they were;
\* after disconnect the manager is not connected, has no client, and
\* created_sources is what it was before.
C38_UnconnectedNoEffect ==
    /\ (last_op.op \in {"create", "update", "exists"} /\ ~last_op.connected)
         => /\ ~last_op.ret
            /\ last_op.calls = <<>>
            /\ created_sources = last_op.cache_before
            /\ last_op.inputs_after = last_op.inputs_before
    /\ last_op.op = "disconnect"
         => /\ ~obs.connected /\ obs.client = "none"
            /\ created_sources = last_op.cache_before

\* An update_text_source on a manager that was disconnected after it had
\* created a source, for a key whose input OBS does not have.
C38_Witness ==
    /\ last_op.op = "update" /\ ~last_op.connected
    /\ last_op.cache_before # {}
    /\ SourceName(last_op.key) \notin last_op.inputs_before
    /\ SourceName(last_op.key) \notin last_op.cache_before

\* The targets a call of update_all_sources wrote to: the names of its
\* requests.
Touched(calls) == {calls[i].name : i \in DOMAIN calls}

\* C39: update_all_sources makes no request for the target of an enabled
\* key whose metric does not resolve in the shot, so that target keeps the
\* text of an earlier shot while the targets of the resolved keys show the
\* new one.
C39_UnresolvedUntouched ==
    last_op.op = "update_all" =>
        \A i \in DOMAIN EnabledKeys :
            ~Resolves(EnabledKeys[i], last_op.shot) =>
                /\ SourceName(EnabledKeys[i]) \notin Touched(last_op.calls)
                /\ \A j \in DOMAIN last_op.updated :
                      last_op.updated[j] # EnabledKeys[i]

\* A shot with a carry and no shot name reached a connected manager whose
\* OBS has both inputs: the carry target was written, the shot-name target
\* was not.
C39_Witness ==
    /\ last_op.op = "update_all" /\ last_op.connected /\ last_op.live
    /\ last_op.shot["carry_yards"] = "number"
    /\ last_op.shot["shot_name"] = "absent"
    /\ last_op.inputs_before = {SourceName(k) : k \in CatalogKeys}
    /\ Touched(last_op.calls) = {SourceName("carry_yards")}

(***************************************************************************)
(* Claims about the flag and the handle of OBSClient (SpecClient)          *)
(***************************************************************************)

\* C37: in every state, whichever threads are inside connect, send or
\* disconnect, an OBSClient whose flag connected is True has a socket
\* handle that is not None.
C37_FlagImpliesHandle == obs.connected => obs.client # "none"

(***************************************************************************)
(* Claims about repeated start and stop (SpecLifecycle)                    *)
(***************************************************************************)

\* C40: DataListener.start on a listener that is running changes nothing
\* (no second thread, no second socket); OGCBridge.stop on a stopped
\* bridge raises nothing and leaves the state the first stop left: running
\* false, the listener stopped, the sink disconnected.
C40_StartStopIdempotent ==
    /\ (call.fn = "DataListener.start" /\ call.before.running)
         => call.after = call.before
    /\ call.fn = "OGCBridge.stop"
         => /\ call.after = call.before
            /\ ~running
            /\ ~listener.running /\ listener.thread # "accepting"
            /\ ~obs.connected /\ obs.client = "none"

\* The bridge was stopped while its listener was accepting and its sink
\* connected, and stop was called once more.
C40_Witness ==
    /\ call.fn = "OGCBridge.stop"
    /\ listener.thread = "ended"
    /\ obs.tried /\ obs.sources = "created"

====
